---- MODULE Spec2Model ----
(***************************************************************************)
(* Model of signal-backup-decode: the Decrypter (src/src/decrypter.rs),    *)
(* the InputFile stream reader (src/src/input.rs), the frame codec         *)
(* (src/src/frame.rs), the output trait (src/src/output.rs), the           *)
(* single-threaded decode_backup loop of src/src/main.rs, and the          *)
(* two-thread pipeline described in spec.md sections 4.5 and 5.            *)
(*                                                                         *)
(* Byte vectors are sequences of naturals 0..255.  Source indices are      *)
(* 0-based; At and SetAt translate them.  SHA-512/HKDF/HMAC/AES-CTR are    *)
(* modelled symbolically: a digest is the record of its key and message.   *)
(***************************************************************************)
EXTENDS Integers, Sequences, FiniteSets, TLC

(* ------------------------------ bounds -------------------------------- *)

\* increase_iv / increase_counter calls applied to one IV
MaxIvCalls == 3
\* Decrypter operations in one run of the MAC harness
MaxOps == 4
\* frames in a backup file after its header
MaxFrames == 13
\* parameters of one statement on the wire
MaxParameters == 2
\* frames handed to one sink
MaxWrites == 3

(* -------------------------- program constants ------------------------- *)

U8_MAX == 255
LENGTH_HMAC == 10

(* ------------------------------ helpers ------------------------------- *)

None == [some |-> FALSE]
Some(x) == [some |-> TRUE, v |-> x]

Min(a, b) == IF a < b THEN a ELSE b

\* v[i] with the source's 0-based index
At(v, i) == v[i + 1]
\* v with v[i] = x, 0-based
SetAt(v, i, x) == [v EXCEPT ![i + 1] = x]

\* bytes v[i..i+4) read as a big-endian unsigned 32-bit integer, kept as
\* its two 16-bit halves <<high, low>> (TLC's integers are 32-bit)
BE16(v, i) == At(v, i) * 256 + At(v, i + 1)
BE32(v, i) == <<BE16(v, i), BE16(v, i + 2)>>
\* (c + n) mod 2^32 on such a pair, for 0 <= n < 65536
Add32(c, n) ==
  <<(c[1] + ((c[2] + n) \div 65536)) % 65536, (c[2] + n) % 65536>>

\* byte b with bit k inverted
FlipBit(b, k) ==
  IF (b \div (2 ^ k)) % 2 = 0 THEN b + 2 ^ k ELSE b - 2 ^ k

(* ----------------------------- variables ------------------------------ *)

VARIABLES
  decrypter,     \* Option<Decrypter>: {mac, cipher, key, iv}
  cipher_data,   \* main.rs: Option<CipherData>: {hmac, cipher_key, counter}
  panicked,      \* the process has panicked (unwrap, panic!, overflow, index)
  op,            \* name of the operation that produced this state
  res,           \* result of that operation: "ok", "err" or "none"
  iv0,           \* the IV the run started from
  calls,         \* increase_iv calls so far
  legacy_calls,  \* increase_counter calls so far
  before,        \* the IV / counter bytes before that operation
  fed,           \* bytes fed to the MAC since the last verify_mac call
  checked,       \* the last verify_mac call: {fed, tag, tamper, err}
  ops,           \* operations of the MAC harness so far
  file,          \* the backup file: a sequence of frames, the first in clear
  verify,        \* Config::verify_mac
  input_file,    \* Option<InputFile>: {reader, decrypter, count_frame,
                 \*   count_byte, file_version}
  dpc,           \* decode thread: start, pull, push, done, failed,
                 \*   cancelled, panicked
  wpc,           \* write thread: idle, recv, write, done, failed
  queue,         \* the bounded channel between the two threads
  pending,       \* the frame the decode thread is pushing
  writing,       \* the frame the write thread has received
  sink,          \* the sink's write operations, in order
  written_frames,\* SignalOutput::get_written_frames
  errors,        \* the errors the run has reported, in order
  version_log,   \* the versions the decode thread has logged
  decoded,       \* the frames next() has returned, in order
  local,         \* main.rs decode_backup: its position and local variables
  codec,         \* Frame::new: the wire frame given and the result
  out,           \* a SignalOutput: its kind, written_frames and operations
  config,        \* args.rs Config::new: the command line and the result
  derivation     \* Decrypter::new: the hasher, the hash and the secrets so far

vars ==
  <<decrypter, cipher_data, panicked, op, res, iv0, calls, legacy_calls,
    before, fed, checked, ops, file, verify, input_file, dpc, wpc, queue,
    pending, writing, sink, written_frames, errors, version_log, decoded,
    local, codec, out, config, derivation>>

(* ------------------------- key derivation ----------------------------- *)

\* Decrypter::new and generate_keys: the salt is given to a SHA-512 hasher,
\* 250000 rounds follow that give it the hash and the key and take the
\* digest, and HKDF-SHA256 makes 64 bytes of the first 32 bytes of the last
\* digest.  Digests and HKDF outputs are symbolic.
ROUNDS == 250000
INFO == "Backup Export"
OKM_LENGTH == 64
DIGEST_HALF == 32

\* sha2::Sha512::new(): the hasher holds the inputs since its last reset
NewHasher == <<>>
\* hasher.update(input)
hasher_update(hasher, of, input) == Append(hasher, [of |-> of, v |-> input])

\* let mut hash = key.to_vec(): the hash before the first round
KeyBytes(key) == [key |-> key, n |-> 0, salted |-> {}, salt |-> <<>>]

\* the digest of what the hasher holds, in finalize_reset: a digest is
\* written as the key, the number n of nested digests, the depths at which
\* a salt was among the inputs, and that salt
finalize(hasher) ==
  LET at(of) == CHOOSE k \in 1..Len(hasher) : hasher[k].of = of
      has(of) == \E k \in 1..Len(hasher) : hasher[k].of = of
      prev == hasher[at("hash")].v
  IN  [ key |-> hasher[at("key")].v,
        n |-> prev.n + 1,
        salted |-> IF has("salt") THEN prev.salted \cup {prev.n + 1}
                   ELSE prev.salted,
        salt |-> IF has("salt") THEN hasher[at("salt")].v ELSE prev.salt ]

\* &hash[..32]
FirstHalf(hash) == [part |-> "hash[..32]", hash |-> hash]

\* the salt of HKDF-Extract when none is given: HashLen zero bytes
ZeroSalt == [j \in 1..DIGEST_HALF |-> 0]

\* mutation: the input key material is taken as the pseudorandom key
hkdf_from_prk(salt, ikm) == [prk |-> ikm]

\* hkdf::Hkdf::<Sha256>::new(salt, ikm), and hkdf_extract of main.rs:
\* HKDF-Extract of the input key material under the salt
hkdf_new(salt, ikm) ==
  [prk |-> [extract |-> IF salt.some THEN salt.v ELSE ZeroSalt, ikm |-> ikm]]

\* hk.expand(info, &mut okm), and hkdf_expand of main.rs
hkdf_expand(hk, info, length) ==
  [expand |-> hk.prk, info |-> info, length |-> length]

\* the digest that the 250000 rounds end with
IteratedHash(key, salt) ==
  [key |-> key, n |-> ROUNDS, salted |-> {1}, salt |-> salt]

\* the 64 bytes that Decrypter::new derives of a password and a salt
Okm(password, salt) ==
  hkdf_expand(hkdf_new(None, FirstHalf(IteratedHash(password, salt))),
              INFO, OKM_LENGTH)
CipherKey(password, salt) == [part |-> "okm[..32]", okm |-> Okm(password, salt)]
MacKey(password, salt) == [part |-> "okm[32..]", okm |-> Okm(password, salt)]

\* a freshly keyed Hmac<Sha256>
NewHmac(k) == [k |-> k, acc |-> <<>>]
\* Aes256Ctr::new(key, iv): keystream position 0
NewCipher(k, v) == [key |-> k, iv |-> v, pos |-> 0]

new(password, salt, v, verify_mac_flag) ==
  [ mac    |-> IF verify_mac_flag THEN Some(NewHmac(MacKey(password, salt)))
               ELSE None,
    cipher |-> NewCipher(CipherKey(password, salt), v),
    key    |-> CipherKey(password, salt),
    iv     |-> v ]

(* ----------------------------- increase_iv ---------------------------- *)

\* the loop body of increase_iv at index i; i = -1 when take(4).rev() is
\* exhausted
RECURSIVE increase_iv_loop(_, _)
increase_iv_loop(v, i) ==
  IF i < 0 THEN v
  ELSE IF At(v, i) < U8_MAX THEN SetAt(v, i, At(v, i) + 1)
  ELSE increase_iv_loop(SetAt(v, i, 0), i - 1)

\* mutation: the iterator is not reversed (iv[0] is visited first)
RECURSIVE increase_iv_forward(_, _)
increase_iv_forward(v, i) ==
  IF i > 3 THEN v
  ELSE IF At(v, i) < U8_MAX THEN SetAt(v, i, At(v, i) + 1)
  ELSE increase_iv_forward(SetAt(v, i, 0), i + 1)

increase_iv_norev(d) ==
  LET v == increase_iv_forward(d.iv, 0)
  IN  [d EXCEPT !.iv = v, !.cipher = NewCipher(d.key, v)]

\* mutation: a byte at 255 wraps to 0 and the loop stops (no carry)
increase_iv_nocarry(d) ==
  LET v == IF At(d.iv, 3) < U8_MAX THEN SetAt(d.iv, 3, At(d.iv, 3) + 1)
           ELSE SetAt(d.iv, 3, 0)
  IN  [d EXCEPT !.iv = v, !.cipher = NewCipher(d.key, v)]

\* mutation: the cipher is not re-created from the new IV
increase_iv_keep_cipher(d) ==
  [d EXCEPT !.iv = increase_iv_loop(d.iv, Min(4, Len(d.iv)) - 1)]

\* Decrypter::increase_iv: self.iv.iter_mut().take(4).rev(), then the cipher
\* is re-created from (key, iv)
increase_iv(d) ==
  LET v == increase_iv_loop(d.iv, Min(4, Len(d.iv)) - 1)
  IN  [d EXCEPT !.iv = v, !.cipher = NewCipher(d.key, v)]

\* main.rs increase_counter(counter, start): i = start.unwrap_or(3); at
\* i = 0 with counter[0] = 255 the statement i -= 1 underflows usize: a panic
\* in a debug build, and in a release build i wraps and counter[i] panics.
RECURSIVE increase_counter_loop(_, _)
increase_counter_loop(counter, i) ==
  IF At(counter, i) < 255 THEN
    [counter |-> SetAt(counter, i, At(counter, i) + 1), panic |-> FALSE]
  ELSE IF i = 0 THEN
    [counter |-> SetAt(counter, i, 0), panic |-> TRUE]
  ELSE increase_counter_loop(SetAt(counter, i, 0), i - 1)

increase_counter(counter, start) ==
  increase_counter_loop(counter, IF start.some THEN start.v ELSE 3)

(* ------------------------------- MAC ---------------------------------- *)

\* HMAC-SHA256 of message m under key k: 32 bytes, symbolic
Hmac(k, m) == [k |-> k, m |-> m, n |-> 32, flip |-> 0]
\* the first n bytes of a digest
Truncate(digest, n) == [digest EXCEPT !.n = n]
\* a tag with one bit inverted
FlipTag(tag, bit) == [tag EXCEPT !.flip = bit]

\* Hmac::update
mac_update(m, data) == [m EXCEPT !.acc = m.acc \o data]

\* mutation: the keystream is applied first and the MAC is fed the result
\* (a plaintext byte stands as a value no ciphertext byte has)
decrypt_then_feed(d, data) ==
  [d EXCEPT !.mac = IF d.mac.some
                    THEN Some(mac_update(d.mac.v,
                                         [j \in 1..Len(data) |-> 256 + data[j]]))
                    ELSE None,
            !.cipher.pos = d.cipher.pos + Len(data)]

\* Decrypter::decrypt: feed the buffer (ciphertext) to the MAC if there is
\* one, then apply the keystream, which moves the cipher's position
decrypt(d, data) ==
  [d EXCEPT !.mac = IF d.mac.some THEN Some(mac_update(d.mac.v, data)) ELSE None,
            !.cipher.pos = d.cipher.pos + Len(data)]

\* Decrypter::mac_update_with_iv
mac_update_with_iv(d) ==
  [d EXCEPT !.mac = IF d.mac.some THEN Some(mac_update(d.mac.v, d.iv)) ELSE None]

\* anyhow!("HMAC verification failed"): an error made of its message; it
\* carries no other value
HmacError == [msg |-> "HMAC verification failed", carried |-> <<>>]

\* mutation: finalize() without the reset
verify_mac_noreset(d, hmac_control) ==
  IF d.mac.some THEN
    LET code_bytes == Truncate(Hmac(d.mac.v.k, d.mac.v.acc), 10)
    IN  [d  |-> d,
         ok |-> (code_bytes = hmac_control),
         err |-> IF code_bytes = hmac_control THEN None ELSE Some(HmacError)]
  ELSE [d |-> d, ok |-> TRUE, err |-> None]

\* mutation: the comparison's result is ignored
verify_mac_accept(d, hmac_control) ==
  IF d.mac.some THEN
    [d |-> [d EXCEPT !.mac = Some(NewHmac(d.mac.v.k))], ok |-> TRUE, err |-> None]
  ELSE [d |-> d, ok |-> TRUE, err |-> None]

\* mutation: the accumulator is reset only when the comparison fails
verify_mac_keep_on_success(d, hmac_control) ==
  IF d.mac.some THEN
    LET code_bytes == Truncate(Hmac(d.mac.v.k, d.mac.v.acc), 10)
    IN  [d  |-> IF code_bytes = hmac_control THEN d
                ELSE [d EXCEPT !.mac = Some(NewHmac(d.mac.v.k))],
         ok |-> (code_bytes = hmac_control),
         err |-> IF code_bytes = hmac_control THEN None ELSE Some(HmacError)]
  ELSE [d |-> d, ok |-> TRUE, err |-> None]

\* Decrypter::verify_mac: finalize_reset, first 10 bytes, constant-time
\* comparison; Ok when there is no MAC
verify_mac(d, hmac_control) ==
  IF d.mac.some THEN
    LET code_bytes == Truncate(Hmac(d.mac.v.k, d.mac.v.acc), 10)
    IN  [d  |-> [d EXCEPT !.mac = Some(NewHmac(d.mac.v.k))],
         ok |-> (code_bytes = hmac_control),
         err |-> IF code_bytes = hmac_control THEN None ELSE Some(HmacError)]
  ELSE [d |-> d, ok |-> TRUE, err |-> None]

(* ===================================================================== *)
(* SpecIv: increase_iv and increase_counter applied to bounded IVs        *)
(* ===================================================================== *)

\* values of the four counter bytes: both ends of the byte range
CounterBytes == {0, 1, 254, 255}
\* bytes 4..16 of the IVs tried
IvTails ==
  { <<0, 0, 0, 0, 0, 0, 0, 0, 0, 0, 0, 0>>,
    <<255, 255, 255, 255, 255, 255, 255, 255, 255, 255, 255, 255>>,
    <<7, 0, 0, 0, 0, 0, 0, 0, 0, 0, 0, 255>> }
IvInputs ==
  { <<a, b, c, e>> \o t : a \in CounterBytes, b \in CounterBytes,
                          c \in CounterBytes, e \in CounterBytes, t \in IvTails }

macVars == <<fed, checked, ops>>
ivVars == <<iv0, calls, legacy_calls, before>>
pipeVars ==
  <<file, verify, input_file, dpc, wpc, queue, pending, writing, sink,
    written_frames, errors, version_log, decoded, local, codec, out, config, derivation>>

\* no call of Frame::new, of a SignalOutput or of Config::new
UnitIdle == codec = None /\ out = None /\ config = None /\ derivation = None

LocalIdle ==
  [pc |-> "idle", reader |-> 0, frame_count |-> 0, attachment_count |-> 0,
   seek_position |-> 0]

MacIdle == fed = <<>> /\ checked = None /\ ops = 0
PipeIdle ==
  /\ file = <<>> /\ verify = FALSE /\ input_file = None
  /\ dpc = "start" /\ wpc = "idle"
  /\ queue = <<>> /\ pending = None /\ writing = None
  /\ sink = <<>> /\ written_frames = 1
  /\ errors = <<>> /\ version_log = <<>> /\ decoded = <<>>
  /\ local = LocalIdle
  /\ UnitIdle

InitIv ==
  /\ iv0 \in IvInputs
  /\ decrypter = Some(new("000000000000000000000000000000", <<0>>, iv0, FALSE))
  /\ cipher_data = Some([hmac |-> NewHmac(MacKey("0", <<0>>)),
                         cipher_key |-> CipherKey("0", <<0>>),
                         counter |-> iv0])
  /\ panicked = FALSE
  /\ op = "init" /\ res = "none"
  /\ calls = 0 /\ legacy_calls = 0
  /\ before = iv0
  /\ MacIdle
  /\ PipeIdle

\* dec.increase_iv()
IvIncrease ==
  /\ ~panicked
  /\ calls < MaxIvCalls
  /\ decrypter' = Some(increase_iv(decrypter.v))
  /\ before' = decrypter.v.iv
  /\ calls' = calls + 1
  /\ op' = "increase_iv" /\ res' = "ok"
  /\ UNCHANGED <<cipher_data, panicked, iv0, legacy_calls, macVars, pipeVars>>

\* increase_counter(&mut cipher_data.counter, None)
CounterIncrease ==
  /\ ~panicked
  /\ legacy_calls < MaxIvCalls
  /\ LET r == increase_counter(cipher_data.v.counter, None)
     IN  /\ cipher_data' = Some([cipher_data.v EXCEPT !.counter = r.counter])
         /\ panicked' = r.panic
         /\ res' = IF r.panic THEN "panic" ELSE "ok"
  /\ before' = cipher_data.v.counter
  /\ legacy_calls' = legacy_calls + 1
  /\ op' = "increase_counter"
  /\ UNCHANGED <<decrypter, iv0, calls, macVars, pipeVars>>

NextIv == IvIncrease \/ CounterIncrease

SpecIv == InitIv /\ [][NextIv]_vars

AllFF(v, i) == \A j \in i..(i + 3) : At(v, j) = 255
AllZero(v, i) == \A j \in i..(i + 3) : At(v, j) = 0

C2_IncreaseIvTest ==
  op = "increase_iv" =>
    /\ At(before, 3) < 255 =>
         decrypter.v.iv = SetAt(before, 3, At(before, 3) + 1)
    /\ (At(before, 3) = 255 /\ At(before, 2) = 255 /\ At(before, 1) < 255) =>
         decrypter.v.iv =
           SetAt(SetAt(SetAt(before, 3, 0), 2, 0), 1, At(before, 1) + 1)
    /\ \A i \in 4..15 : At(decrypter.v.iv, i) = At(before, i)

\* the second case of the test: [0,0,255,255,0,...] became [0,1,0,0,0,...]
C2_Witness ==
  /\ op = "increase_iv"
  /\ before = <<0, 0, 255, 255, 0, 0, 0, 0, 0, 0, 0, 0, 0, 0, 0, 0>>
  /\ decrypter.v.iv = <<0, 1, 0, 0, 0, 0, 0, 0, 0, 0, 0, 0, 0, 0, 0, 0>>

(* ===================================================================== *)
(* SpecMac: the Decrypter's operations in any order, with tags supplied  *)
(* by a writer that authenticated the bytes and by a tamperer             *)
(* ===================================================================== *)

Password == "123456789012345678901234567890"
OtherPassword == "000000000000000000000000000000"
Salt == <<5, 6>>

\* ciphertext buffers handed to decrypt
Chunks == { <<0>>, <<255, 1>> }
MacIvs ==
  { <<0, 0, 0, 255, 0, 0, 0, 0, 0, 0, 0, 0, 0, 0, 0, 0>>,
    <<255, 255, 255, 255, 1, 2, 3, 4, 5, 6, 7, 8, 9, 10, 11, 12>> }

\* the tag a writer holding the MAC key computes over message m
GenuineTag(m) == Truncate(Hmac(MacKey(Password, Salt), m), LENGTH_HMAC)

\* m with bit k of byte j (0-based) inverted
FlipAt(m, j, k) == SetAt(m, j, FlipBit(At(m, j), k))

\* the tags presented after the reader has fed m since the last verification
\* (prev: what it had fed before that verification)
TagCandidates(m, prev) ==
  { [tamper |-> "none", tag |-> GenuineTag(m)] }
  \cup { [tamper |-> "tag", tag |-> FlipTag(GenuineTag(m), b)] : b \in {1, 80} }
  \cup { [tamper |-> "ct", tag |-> GenuineTag(FlipAt(m, j, k))] :
            j \in 0..(Len(m) - 1), k \in {0, 7} }
  \cup { [tamper |-> "key",
          tag |-> Truncate(Hmac(MacKey(OtherPassword, Salt), m), LENGTH_HMAC)] }
  \cup (IF prev = <<>> THEN {}
        ELSE { [tamper |-> "stale", tag |-> GenuineTag(prev \o m)] })

InitMac ==
  /\ iv0 \in MacIvs
  /\ \E flag \in BOOLEAN : decrypter = Some(new(Password, Salt, iv0, flag))
  /\ cipher_data = None
  /\ panicked = FALSE
  /\ op = "init" /\ res = "none"
  /\ calls = 0 /\ legacy_calls = 0 /\ before = iv0
  /\ MacIdle
  /\ PipeIdle

MacStep(name) ==
  /\ ops < MaxOps
  /\ ops' = ops + 1
  /\ op' = name
  /\ UNCHANGED <<cipher_data, panicked, iv0, legacy_calls, pipeVars>>

\* dec.decrypt(&mut data)
MacDecrypt ==
  /\ MacStep("decrypt")
  /\ \E data \in Chunks :
       /\ decrypter' = Some(decrypt(decrypter.v, data))
       /\ fed' = fed \o data
  /\ res' = "ok"
  /\ UNCHANGED <<checked, calls, before>>

\* dec.mac_update_with_iv()
MacUpdateWithIv ==
  /\ MacStep("mac_update_with_iv")
  /\ decrypter' = Some(mac_update_with_iv(decrypter.v))
  /\ fed' = fed \o decrypter.v.iv
  /\ res' = "ok"
  /\ UNCHANGED <<checked, calls, before>>

\* dec.increase_iv()
MacIncreaseIv ==
  /\ MacStep("increase_iv")
  /\ decrypter' = Some(increase_iv(decrypter.v))
  /\ before' = decrypter.v.iv
  /\ calls' = calls + 1
  /\ res' = "ok"
  /\ UNCHANGED <<fed, checked>>

\* dec.verify_mac(&hmac)
MacVerify ==
  /\ MacStep("verify_mac")
  /\ \E c \in TagCandidates(fed, IF checked.some THEN checked.v.fed ELSE <<>>) :
       LET r == verify_mac(decrypter.v, c.tag)
       IN  /\ decrypter' = Some(r.d)
           /\ res' = IF r.ok THEN "ok" ELSE "err"
           /\ checked' = Some([fed |-> fed, tag |-> c.tag, tamper |-> c.tamper,
                             err |-> r.err])
  /\ fed' = <<>>
  /\ UNCHANGED <<calls, before>>

NextMac == MacDecrypt \/ MacUpdateWithIv \/ MacIncreaseIv \/ MacVerify

SpecMac == InitMac /\ [][NextMac]_vars

\* C3: with MAC verification enabled, verify_mac(tag) succeeds iff tag is
\* the first 10 bytes of the HMAC over exactly the bytes fed since the last
\* verification; an unmodified ciphertext+tag pair verifies, and a one-bit
\* change of the covered ciphertext or of the tag is rejected.
C3_VerifyMacIff ==
  (op = "verify_mac" /\ decrypter.v.mac.some) =>
    /\ res = "ok" <=> checked.v.tag = GenuineTag(checked.v.fed)
    /\ checked.v.tamper = "none" => res = "ok"
    /\ checked.v.tamper \in {"ct", "tag"} => res = "err"
    /\ decrypter.v.mac.v.acc = <<>>

\* a payload block (IV and two ciphertext bytes fed) whose ciphertext differs
\* in one bit from what the tag covers has been rejected, after an earlier
\* verification
C3_Witness ==
  /\ op = "verify_mac" /\ decrypter.v.mac.some
  /\ checked.v.tamper = "ct" /\ res = "err"
  /\ Len(checked.v.fed) = 18
  /\ ops = 3

(* ===================================================================== *)
(* The backup file                                                        *)
(* ===================================================================== *)

\* the IV of the file's header: the counter carries into iv[2] after one
\* unit and bytes 12..16 are [0,0,0,255]
HeaderIv == <<0, 0, 254, 255, 9, 9, 9, 9, 9, 9, 9, 9, 0, 0, 0, 255>>
\* salt and IV carried by a header that appears again in the stream
SecondSalt == <<7>>
SecondIv == <<1, 1, 1, 1, 1, 1, 1, 1, 1, 1, 1, 1, 1, 1, 1, 1>>

\* the has_* checks of Frame::new, in their order
Fields ==
  <<"header", "statement", "preference", "attachment", "version", "end",
    "avatar", "sticker", "keyValue">>

PayloadFields == {"attachment", "avatar", "sticker"}

\* a wire frame (Backups::BackupFrame): its populated top-level fields and
\* their sub-fields (header: salt, iv, version; statement: statement,
\* parameters; preference; attachment: length, attachmentId, rowId; version:
\* version; avatar: length, name; sticker: length, rowId; keyValue: key and
\* one value).  The three lengths are one sub-field here and so are the two
\* row ids.
BackupFrame(fields, salt, v, version, data_length, statement, parameters, preference, id, row, name, db_version, key, value) ==
  [ fields |-> fields, salt |-> salt, iv |-> v, version |-> version,
    data_length |-> data_length, statement |-> statement,
    parameters |-> parameters, preference |-> preference, id |-> id,
    row |-> row, name |-> name, db_version |-> db_version, key |-> key,
    value |-> value ]

\* a wire frame of the backup file: sub-fields the reader does not use have
\* one value
Wire(fields, salt, v, version, data_length) ==
  BackupFrame(fields, salt, v, version, data_length, <<"INSERT">>, <<>>,
              <<"file", "key", "value">>, 0, 0, "name", 0, "key",
              [type |-> "integerValue", v |-> <<0>>])

\* a frame as it lies in the file: the wire frame the writer serialized, the
\* number of ciphertext bytes of its body (the value of its length prefix
\* less the LENGTH_HMAC bytes of the tag: below 0 when the prefix declares
\* fewer bytes than a tag has), and what was changed afterwards
\* in the body (tamper) or in the payload block that follows (ptamper):
\* "none", "ct" (one ciphertext bit) or "tag" (one bit of the MAC tag)
Unit(wire, body_len, tamper, ptamper) ==
  [wire |-> wire, body_len |-> body_len, tamper |-> tamper, ptamper |-> ptamper]

HasPayload(u) ==
  Cardinality(u.wire.fields) = 1 /\ u.wire.fields \subseteq PayloadFields

\* the bytes of a 32-bit value kept as <<high, low>>
ToBytes32(c) == <<c[1] \div 256, c[1] % 256, c[2] \div 256, c[2] % 256>>

\* the writer's IV after n units: the header IV with its first four bytes,
\* a big-endian counter, advanced by n
WriterIv(v, n) == ToBytes32(Add32(BE32(v, 0), n)) \o SubSeq(v, 5, Len(v))

\* units (frames and payload blocks) written before frame i of file f;
\* frame 1 is the clear header
RECURSIVE UnitsBefore(_, _)
UnitsBefore(f, i) ==
  IF i <= 2 THEN 0
  ELSE UnitsBefore(f, i - 1) + (IF HasPayload(f[i - 1]) THEN 2 ELSE 1)

FileIv(f) == f[1].wire.iv
FrameIv(f, i) == WriterIv(FileIv(f), UnitsBefore(f, i))
PayloadIv(f, i) == WriterIv(FileIv(f), UnitsBefore(f, i) + 1)

\* ciphertext bytes as the writer produced them
LenCt(i) == <<i % 256, 0, 0, (3 * i) % 256>>
BodyCt(f, i) == [j \in 1..f[i].body_len |-> (16 * i + j) % 256]
PayloadCt(f, i) == [j \in 1..f[i].wire.data_length |-> (16 * i + 8 + j) % 256]

\* ... and as the reader finds them
BodyRead(f, i) ==
  IF f[i].tamper = "ct" THEN FlipAt(BodyCt(f, i), 0, 0) ELSE BodyCt(f, i)
PayloadRead(f, i) ==
  IF f[i].ptamper = "ct" THEN FlipAt(PayloadCt(f, i), 0, 7) ELSE PayloadCt(f, i)

WriterMacKey(f) == MacKey(Password, f[1].wire.salt)
WriterCipherKey(f) == CipherKey(Password, f[1].wire.salt)
WriterTag(f, m) == Truncate(Hmac(WriterMacKey(f), m), LENGTH_HMAC)

\* the bytes the writer authenticated for frame i: the body, preceded in
\* file versions >= 1 by the encrypted length
FrameCovered(f, i) ==
  IF f[1].wire.version = 0 THEN BodyCt(f, i) ELSE LenCt(i) \o BodyCt(f, i)
\* the tags found in the file
FrameTag(f, i) ==
  IF f[i].tamper = "tag" THEN FlipTag(WriterTag(f, FrameCovered(f, i)), 1)
  ELSE WriterTag(f, FrameCovered(f, i))
PayloadTag(f, i) ==
  IF f[i].ptamper = "tag"
  THEN FlipTag(WriterTag(f, PayloadIv(f, i) \o PayloadCt(f, i)), 80)
  ELSE WriterTag(f, PayloadIv(f, i) \o PayloadCt(f, i))

(* ===================================================================== *)
(* Frame (frame.rs)                                                       *)
(* ===================================================================== *)

\* a u64 is <<top, low>>, top its bit 63 and low the other bits; an i64 is
\* [neg, low] with the value low - neg * 2^63
AsI64(u) == [neg |-> u[1] = 1, low |-> u[2]]
\* the two's complement bits of an i64, as a u64
BitsOf(i) == <<IF i.neg THEN 1 ELSE 0, i.low>>

ParameterTypes ==
  {"stringParamter", "integerParameter", "doubleParameter", "blobParameter",
   "nullparameter"}

\* the rusqlite value pushed for one parameter of a statement
ParameterValue(param) ==
  CASE param.type = "stringParamter" -> [type |-> "Text", v |-> param.v]
    [] param.type = "integerParameter" -> [type |-> "Integer", v |-> AsI64(param.v)]
    [] param.type = "doubleParameter" -> [type |-> "Real", v |-> param.v]
    [] param.type = "blobParameter" -> [type |-> "Blob", v |-> param.v]
    [] param.type = "nullparameter" -> [type |-> "Null", v |-> <<>>]

KeyValueTypes ==
  {"blobValue", "booleanValue", "floatValue", "integerValue", "longValue",
   "stringValue"}

\* mutation: a 32-bit integer value becomes a Float
KeyValueContent_int_as_float(value) ==
  CASE value.type = "blobValue" -> [type |-> "Blob", v |-> value.v]
    [] value.type = "booleanValue" -> [type |-> "Bool", v |-> value.v]
    [] value.type \in {"floatValue", "integerValue"} -> [type |-> "Float", v |-> value.v]
    [] value.type = "longValue" -> [type |-> "Int", v |-> value.v]
    [] value.type = "stringValue" -> [type |-> "String", v |-> value.v]

\* KeyValueContent of a keyValue's value
KeyValueContent(value) ==
  CASE value.type = "blobValue" -> [type |-> "Blob", v |-> value.v]
    [] value.type = "booleanValue" -> [type |-> "Bool", v |-> value.v]
    [] value.type = "floatValue" -> [type |-> "Float", v |-> value.v]
    [] value.type \in {"integerValue", "longValue"} -> [type |-> "Int", v |-> value.v]
    [] value.type = "stringValue" -> [type |-> "String", v |-> value.v]

\* the value assigned to ret in the block of one populated field
Variant(field, frame) ==
  CASE field = "header" ->
         [kind |-> "Header", salt |-> frame.salt, iv |-> frame.iv]
    [] field = "statement" ->
         [kind |-> "Statement", statement |-> frame.statement,
          parameter |-> [k \in 1..Len(frame.parameters) |->
                           ParameterValue(frame.parameters[k])]]
    [] field = "preference" ->
         [kind |-> "Preference", preference |-> frame.preference]
    [] field = "attachment" ->
         [kind |-> "Attachment", data_length |-> frame.data_length,
          id |-> frame.id, row |-> frame.row, data |-> None]
    [] field = "version" -> [kind |-> "Version", version |-> frame.db_version]
    [] field = "end" -> [kind |-> "End"]
    [] field = "avatar" ->
         [kind |-> "Avatar", data_length |-> frame.data_length,
          name |-> frame.name, data |-> None]
    [] field = "sticker" ->
         [kind |-> "Sticker", data_length |-> frame.data_length,
          row |-> frame.row, data |-> None]
    [] field = "keyValue" ->
         [kind |-> "KeyValue", key |-> frame.key,
          value |-> KeyValueContent(frame.value)]

\* Frame::new: the blocks of the populated fields run in the order of
\* Fields, each counting one and overwriting ret; the statement block
\* panics on a parameter of no known type and the keyValue block on a
\* keyValue without value; then a count other than one is an error
frame_new(frame) ==
  LET last == CHOOSE x \in frame.fields :
                \A y \in frame.fields :
                  \E i, j \in 1..Len(Fields) :
                    Fields[i] = y /\ Fields[j] = x /\ i <= j
  IN  IF /\ "statement" \in frame.fields
         /\ \E k \in 1..Len(frame.parameters) :
              frame.parameters[k].type \notin ParameterTypes
      THEN [out |-> "panic", err |-> "Parameter type not known"]
      ELSE IF "keyValue" \in frame.fields /\ frame.value.type \notin KeyValueTypes
      THEN [out |-> "panic", err |-> "unreachable"]
      ELSE IF Cardinality(frame.fields) # 1
      THEN [out |-> "err", err |-> "Frame with an unsupported field found"]
      ELSE [out |-> "ok", frame |-> Variant(last, frame)]

\* a Frame as the reader holds it: its variant with the sub-fields the
\* reader uses, among them the version that InputFile::new takes out of a
\* Header (input.rs:46); idx is the place of its bytes in the file and
\* altered tells that its plaintext is not the one the writer encrypted
Frame(kind, wire, idx, altered) ==
  [ kind |-> kind, idx |-> idx, altered |-> altered,
    salt |-> wire.salt, iv |-> wire.iv, version |-> wire.version,
    data_length |-> wire.data_length, data |-> None ]

\* TryFrom<Vec<u8>>: parse_from_bytes, then Frame::new.  A plaintext is
\* [parses, wire, altered]; bytes decrypted under the wrong key or IV do
\* not parse.
try_from(plain, idx) ==
  LET made(r) ==
        IF r.out = "ok"
        THEN [ok |-> TRUE, frame |-> Frame(r.frame.kind, plain.wire, idx, plain.altered)]
        ELSE [ok |-> FALSE, panic |-> r.out = "panic", err |-> r.err]
  IN  IF ~plain.parses
      THEN [ok |-> FALSE, panic |-> FALSE, err |-> "Could not parse frame"]
      ELSE made(frame_new(plain.wire))

\* Frame::set_data
set_data(frame, data_add) == [frame EXCEPT !.data = Some(data_add)]

(* ===================================================================== *)
(* InputFile (input.rs)                                                   *)
(* ===================================================================== *)

\* results: Ok(value), Err(error) through `?`, or a panic
Ok(inp, val) == [out |-> "ok", inp |-> inp, val |-> val, err |-> ""]
Err(inp, e) == [out |-> "err", inp |-> inp, val |-> None, err |-> e]
Panic(inp, e) == [out |-> "panic", inp |-> inp, val |-> None, err |-> e]

\* decrypt(data, update_mac) as input.rs calls it: with update_mac the
\* buffer is fed to the MAC and decrypted as Decrypter::decrypt does; without
\* it the keystream of the current IV is applied to a copy and no state moves
decrypt_update(d, data, update_mac) ==
  IF update_mac THEN decrypt(d, data) ELSE d

\* what the keystream of decrypter d makes of frame i's body: the writer's
\* plaintext when key, IV and keystream position are the writer's
FramePlain(d, f, i) ==
  IF /\ d.key = WriterCipherKey(f) /\ d.cipher.key = WriterCipherKey(f)
     /\ d.cipher.iv = FrameIv(f, i) /\ d.cipher.pos = 0
  THEN [parses |-> TRUE, wire |-> f[i].wire, altered |-> f[i].tamper = "ct"]
  ELSE [parses |-> FALSE, wire |-> f[i].wire, altered |-> TRUE]

PayloadPlain(d, f, i) ==
  [ idx |-> i, len |-> Len(PayloadRead(f, i)),
    altered |-> ~( /\ d.cipher.key = WriterCipherKey(f)
                   /\ d.cipher.iv = PayloadIv(f, i) /\ d.cipher.pos = 0
                   /\ f[i].ptamper # "ct" ) ]

\* InputFile::new: the first frame is read and parsed without decryption
InputFile_new(f, password, verify_mac_flag) ==
  IF Len(f) = 0 THEN Panic(None, "read_u32: unwrap on end of file")
  ELSE
    LET len == f[1].body_len
        parsed == try_from([parses |-> TRUE, wire |-> f[1].wire, altered |-> FALSE], 1)
    IN  IF ~parsed.ok THEN
          IF parsed.panic THEN Panic(None, parsed.err) ELSE Err(None, parsed.err)
        ELSE IF parsed.frame.kind = "Header" THEN
          Ok(Some([ reader |-> 1,
                    decrypter |-> new(password, parsed.frame.salt,
                                      parsed.frame.iv, verify_mac_flag),
                    count_frame |-> 1,
                    count_byte |-> len + 4 + 16,
                    file_version |-> parsed.frame.version ]), None)
        ELSE Err(None, "first frame is not a header")

\* the value of frame i's length prefix: the bytes that follow it, which are
\* the body and the tag
FrameLength(f, i) == f[i].body_len + LENGTH_HMAC
\* the bytes of the tag stand here as marks that no byte equals; their
\* value is FrameTag
TagMarks == [j \in 1..LENGTH_HMAC |-> 256 + j]
\* the bytes of frame i behind its length prefix, as the reader finds them
FrameBytes(f, i) == BodyRead(f, i) \o TagMarks
\* read_exact of n bytes, `from` bytes into a frame
read_exact(bytes, from, n) == SubSeq(bytes, from + 1, from + n)

\* read_decrypt_frame: the size of data for a frame of the given length,
\* `length - LENGTH_HMAC` or `4 + length - LENGTH_HMAC` in usize.  Below 0
\* the subtraction panics in a build with overflow checks and wraps to a
\* size above isize::MAX in a build without, where vec! panics with
\* "capacity overflow": a panic in every build.  In file versions >= 1 a
\* size below 4 makes the slice data[4..] panic.
data_size(inp, length) ==
  IF inp.file_version = 0 THEN
    IF length - LENGTH_HMAC < 0
    THEN [panic |-> TRUE, size |-> 0,
          err |-> "attempt to subtract with overflow, or capacity overflow"]
    ELSE [panic |-> FALSE, size |-> length - LENGTH_HMAC, err |-> ""]
  ELSE
    IF 4 + length - LENGTH_HMAC < 0
    THEN [panic |-> TRUE, size |-> 0,
          err |-> "attempt to subtract with overflow, or capacity overflow"]
    ELSE IF 4 + length - LENGTH_HMAC < 4
    THEN [panic |-> TRUE, size |-> 4 + length - LENGTH_HMAC,
          err |-> "range start index 4 out of range for slice"]
    ELSE [panic |-> FALSE, size |-> 4 + length - LENGTH_HMAC, err |-> ""]

\* read_decrypt_frame up to its call of verify_mac, for frame i.
\* frame_prepared: the Decrypter before decrypt(&mut data, true), which in
\* file versions >= 1 is after decrypt(&encrypted_len, false);
\* frame_data: the buffer given to decrypt(&mut data, true), which in file
\* versions >= 1 is the 4 bytes of encrypted_len followed by the body;
\* frame_decrypted: the Decrypter after that call
frame_prepared(inp, i) ==
  IF inp.file_version = 0 THEN inp.decrypter
  ELSE decrypt_update(inp.decrypter, LenCt(i), FALSE)
\* mutation: the bytes of the encrypted length are not put before the body
frame_data_no_len(inp, f, i) ==
  read_exact(FrameBytes(f, i), 0, FrameLength(f, i) - LENGTH_HMAC)

\* mutation: the body is read as `length` bytes
frame_data_whole(inp, f, i) ==
  IF inp.file_version = 0
  THEN read_exact(FrameBytes(f, i), 0, FrameLength(f, i))
  ELSE LenCt(i) \o read_exact(FrameBytes(f, i), 0, FrameLength(f, i))

frame_data(inp, f, i) ==
  IF inp.file_version = 0
  THEN read_exact(FrameBytes(f, i), 0, data_size(inp, FrameLength(f, i)).size)
  ELSE LenCt(i) \o read_exact(FrameBytes(f, i), 0,
                              data_size(inp, FrameLength(f, i)).size - 4)
\* frame_hmac: the LENGTH_HMAC bytes read after the body
frame_hmac(inp, f, i) ==
  read_exact(FrameBytes(f, i),
             IF inp.file_version = 0 THEN Len(frame_data(inp, f, i))
             ELSE Len(frame_data(inp, f, i)) - 4,
             LENGTH_HMAC)
frame_decrypted(inp, f, i) ==
  decrypt_update(frame_prepared(inp, i), frame_data(inp, f, i), TRUE)

\* mutation: the 4 bytes of the length are not discarded
frame_body_keep_prefix(inp, f, i) == frame_data(inp, f, i)

\* frame_body: the bytes of the buffer whose plaintext read_decrypt_frame
\* returns: all of it in file version 0, data[4..] in file versions >= 1
frame_body(inp, f, i) ==
  IF inp.file_version = 0 THEN frame_data(inp, f, i)
  ELSE SubSeq(frame_data(inp, f, i), 5, Len(frame_data(inp, f, i)))

\* mutation: the IV is not fed to the MAC before the payload bytes
attachment_decrypted_no_iv(inp, f, i) ==
  decrypt_update(inp.decrypter, PayloadRead(f, i), TRUE)

\* read_decrypt_attachment up to its call of verify_mac: mac_update_with_iv,
\* then decrypt(&mut data, true) on the payload bytes of frame i
attachment_decrypted(inp, f, i) ==
  decrypt_update(mac_update_with_iv(inp.decrypter), PayloadRead(f, i), TRUE)

\* mutation: the IV is advanced and the bytes are counted before the MAC
\* is compared
read_decrypt_frame_advance_first(inp, f) ==
  LET i == inp.reader + 1
      length == f[i].body_len + LENGTH_HMAC
      verified(d0, v) ==
        IF ~v.ok
        THEN Err([inp EXCEPT !.reader = i, !.decrypter = increase_iv(v.d),
                             !.count_byte = @ + length + 4],
                 "HMAC verification failed")
        ELSE Ok([inp EXCEPT !.reader = i, !.decrypter = increase_iv(v.d),
                            !.count_byte = @ + length + 4],
                FramePlain(d0, f, i))
  IN  IF i > Len(f) THEN
        IF inp.file_version = 0 THEN Panic(inp, "read_u32: unwrap on end of file")
        ELSE Err(inp, "failed to fill whole buffer")
      ELSE IF data_size(inp, FrameLength(f, i)).panic THEN
        Panic(inp, data_size(inp, FrameLength(f, i)).err)
      ELSE verified(frame_prepared(inp, i),
                    verify_mac(frame_decrypted(inp, f, i), FrameTag(f, i)))

\* InputFile::read_decrypt_frame on the frame after the reader's position
read_decrypt_frame(inp, f) ==
  LET i == inp.reader + 1
      length == f[i].body_len + LENGTH_HMAC
      verified(d0, v) ==
        IF ~v.ok
        THEN Err([inp EXCEPT !.reader = i, !.decrypter = v.d],
                 "HMAC verification failed")
        ELSE Ok([inp EXCEPT !.reader = i, !.decrypter = increase_iv(v.d),
                            !.count_byte = @ + length + 4],
                FramePlain(d0, f, i))
  IN  IF i > Len(f) THEN
        IF inp.file_version = 0 THEN Panic(inp, "read_u32: unwrap on end of file")
        ELSE Err(inp, "failed to fill whole buffer")
      ELSE IF data_size(inp, FrameLength(f, i)).panic THEN
        Panic(inp, data_size(inp, FrameLength(f, i)).err)
      ELSE verified(frame_prepared(inp, i),
                    verify_mac(frame_decrypted(inp, f, i), FrameTag(f, i)))

\* mutation: the IV is not advanced after a payload block
read_decrypt_attachment_no_advance(inp, f, i, length) ==
  LET verified(d0, v) ==
        IF ~v.ok
        THEN Err([inp EXCEPT !.decrypter = v.d], "HMAC verification failed")
        ELSE Ok([inp EXCEPT !.decrypter = v.d,
                            !.count_byte = @ + length + LENGTH_HMAC],
                PayloadPlain(d0, f, i))
  IN  verified(mac_update_with_iv(inp.decrypter),
               verify_mac(attachment_decrypted(inp, f, i), PayloadTag(f, i)))

\* mutation: the byte counter is assigned the bytes of the payload block
read_decrypt_attachment_assign(inp, f, i, length) ==
  LET verified(d0, v) ==
        IF ~v.ok
        THEN Err([inp EXCEPT !.decrypter = v.d], "HMAC verification failed")
        ELSE Ok([inp EXCEPT !.decrypter = increase_iv(v.d),
                            !.count_byte = length + LENGTH_HMAC],
                PayloadPlain(d0, f, i))
  IN  verified(mac_update_with_iv(inp.decrypter),
               verify_mac(attachment_decrypted(inp, f, i), PayloadTag(f, i)))

\* InputFile::read_decrypt_attachment for the payload block of frame i
read_decrypt_attachment(inp, f, i, length) ==
  LET verified(d0, v) ==
        IF ~v.ok
        THEN Err([inp EXCEPT !.decrypter = v.d], "HMAC verification failed")
        ELSE Ok([inp EXCEPT !.decrypter = increase_iv(v.d),
                            !.count_byte = @ + length + LENGTH_HMAC],
                PayloadPlain(d0, f, i))
  IN  verified(mac_update_with_iv(inp.decrypter),
               verify_mac(attachment_decrypted(inp, f, i), PayloadTag(f, i)))

\* mutation: the payload block of an avatar is not read
read_frame_skip_avatar(inp, f) ==
  LET attached(frame, a) ==
        IF a.out # "ok" THEN a
        ELSE Ok([a.inp EXCEPT !.count_frame = @ + 1], set_data(frame, a.val))
      framed(r, parsed) ==
        IF ~parsed.ok THEN
          IF parsed.panic THEN Panic(r.inp, parsed.err) ELSE Err(r.inp, parsed.err)
        ELSE IF parsed.frame.kind \in {"Attachment", "Sticker"} THEN
          attached(parsed.frame,
                   read_decrypt_attachment(r.inp, f, r.inp.reader,
                                           parsed.frame.data_length))
        ELSE IF parsed.frame.kind = "Header"
        THEN Err(r.inp, "unexpected header found")
        ELSE Ok([r.inp EXCEPT !.count_frame = @ + 1], parsed.frame)
      read(r) ==
        IF r.out # "ok" THEN r ELSE framed(r, try_from(r.val, r.inp.reader))
  IN  read(read_decrypt_frame(inp, f))

\* InputFile::read_frame
read_frame(inp, f) ==
  LET attached(frame, a) ==
        IF a.out # "ok" THEN a
        ELSE Ok([a.inp EXCEPT !.count_frame = @ + 1], set_data(frame, a.val))
      framed(r, parsed) ==
        IF ~parsed.ok THEN
          IF parsed.panic THEN Panic(r.inp, parsed.err) ELSE Err(r.inp, parsed.err)
        ELSE IF parsed.frame.kind \in {"Attachment", "Avatar", "Sticker"} THEN
          attached(parsed.frame,
                   read_decrypt_attachment(r.inp, f, r.inp.reader,
                                           parsed.frame.data_length))
        ELSE IF parsed.frame.kind = "Header"
        THEN Err(r.inp, "unexpected header found")
        ELSE Ok([r.inp EXCEPT !.count_frame = @ + 1], parsed.frame)
      read(r) ==
        IF r.out # "ok" THEN r ELSE framed(r, try_from(r.val, r.inp.reader))
  IN  read(read_decrypt_frame(inp, f))

\* mutation: End is returned like any other frame
next_end_some(inp, f) ==
  LET item(ret) ==
        IF ret.out = "ok" THEN [ret EXCEPT !.val = Some(ret.val)] ELSE ret
  IN  item(read_frame(inp, f))

\* Iterator::next: None (val = None with out = "ok") on End, Some(Ok(frame))
\* otherwise, Some(Err) on an error
next(inp, f) ==
  LET item(ret) ==
        IF ret.out = "ok" THEN
          IF ret.val.kind = "End" THEN [ret EXCEPT !.val = None]
          ELSE [ret EXCEPT !.val = Some(ret.val)]
        ELSE ret
  IN  item(read_frame(inp, f))

(* ===================================================================== *)
(* SignalOutput (output.rs)                                               *)
(* ===================================================================== *)

\* mutation: a preference is answered with Ok(()) and no sink operation
write_frame_drop_preference(frame) ==
  CASE frame.kind = "Statement" -> [out |-> "ok", calls |-> <<"write_statement">>]
    [] frame.kind = "Preference" -> [out |-> "ok", calls |-> <<>>]
    [] frame.kind \in {"Attachment", "Avatar", "Sticker"} /\ ~frame.data.some ->
         [out |-> "panic", calls |-> <<>>]
    [] frame.kind = "Attachment" -> [out |-> "ok", calls |-> <<"write_attachment">>]
    [] frame.kind = "Avatar" -> [out |-> "ok", calls |-> <<"write_avatar">>]
    [] frame.kind = "Sticker" -> [out |-> "ok", calls |-> <<"write_sticker">>]
    [] frame.kind = "Version" -> [out |-> "ok", calls |-> <<"write_version">>]
    [] OTHER -> [out |-> "err", calls |-> <<>>]

\* SignalOutput::write_frame: the sink operations a frame is dispatched to;
\* data.as_ref().unwrap() panics on a payload frame without data, and any
\* other variant is Err("unexpected frame found")
write_frame(frame) ==
  CASE frame.kind = "Statement" -> [out |-> "ok", calls |-> <<"write_statement">>]
    [] frame.kind = "Preference" -> [out |-> "ok", calls |-> <<"write_preference">>]
    [] frame.kind \in {"Attachment", "Avatar", "Sticker"} /\ ~frame.data.some ->
         [out |-> "panic", calls |-> <<>>]
    [] frame.kind = "Attachment" -> [out |-> "ok", calls |-> <<"write_attachment">>]
    [] frame.kind = "Avatar" -> [out |-> "ok", calls |-> <<"write_avatar">>]
    [] frame.kind = "Sticker" -> [out |-> "ok", calls |-> <<"write_sticker">>]
    [] frame.kind = "Version" -> [out |-> "ok", calls |-> <<"write_version">>]
    [] OTHER -> [out |-> "err", calls |-> <<>>]

(* ===================================================================== *)
(* Spec: InputFile driven by the decode thread, the bounded queue and    *)
(* the write thread                                                       *)
(* ===================================================================== *)

QueueCapacity == 10

\* the kinds of the frames of a file, repeated
Cycles ==
  { <<"statement", "attachment", "preference", "avatar", "sticker",
      "statement", "version">>,
    <<"preference", "keyValue", "sticker", "version", "statement">> }

\* what happens at one place of the file
Events ==
  {"none", "end", "header", "ct", "tag", "pct", "ptag", "zero", "two", "short"}

\* the frames of a file where the event can be
EventPlaces == {2, 3, 6, MaxFrames - 1, MaxFrames + 1}

HeaderUnit(version) ==
  Unit(Wire({"header"}, Salt, HeaderIv, version, 0), 3, "none", "none")

\* the length prefix of a frame that declares fewer bytes than a tag has
ShortLength == 7

\* frame i of a file with cycle cyc and event ev at frame at
BodyUnit(cyc, i, at, ev) ==
  LET base == cyc[((i - 2) % Len(cyc)) + 1]
      here == IF i = at THEN ev ELSE "none"
      fields == CASE here = "end" -> {"end"}
                  [] here = "header" -> {"header"}
                  [] here = "pct" -> {"attachment"}
                  [] here = "ptag" -> {"avatar"}
                  [] here = "zero" -> {}
                  [] here = "two" -> {"statement", "end"}
                  [] OTHER -> {base}
  IN  Unit(Wire(fields, SecondSalt, SecondIv, 0,
                IF here = "pct" THEN 2 ELSE i % 3),
           IF here = "short" THEN ShortLength - LENGTH_HMAC ELSE 1 + (i % 2),
           IF here \in {"ct", "tag"} THEN here ELSE "none",
           CASE here = "pct" -> "ct" [] here = "ptag" -> "tag" [] OTHER -> "none")

Files ==
  { <<HeaderUnit(v)>> \o [k \in 1..MaxFrames |-> BodyUnit(cyc, k + 1, at, ev)] :
      v \in {0, 1}, cyc \in Cycles, at \in EventPlaces, ev \in Events }
  \cup { <<>> }
  \cup { <<BodyUnit(cyc, 2, 2, ev)>> \o <<BodyUnit(cyc, 2, 0, "none")>> :
          cyc \in Cycles, ev \in {"none", "end", "zero", "two"} }

Init ==
  /\ file \in Files
  /\ verify \in BOOLEAN
  /\ input_file = None
  /\ dpc = "start" /\ wpc = "idle"
  /\ queue = <<>> /\ pending = None /\ writing = None
  /\ sink = <<>> /\ written_frames = 1
  /\ errors = <<>> /\ version_log = <<>> /\ decoded = <<>>
  /\ local = LocalIdle
  /\ UnitIdle
  /\ decrypter = None /\ cipher_data = None
  /\ panicked = FALSE
  /\ op = "init" /\ res = "none"
  /\ iv0 = HeaderIv /\ calls = 0 /\ legacy_calls = 0 /\ before = HeaderIv
  /\ MacIdle

harnessVars ==
  <<decrypter, cipher_data, iv0, calls, legacy_calls, before, fed, checked, ops,
    local, codec, out, config, derivation>>

\* the run opens the file; the two threads start when that succeeds
Open ==
  /\ dpc = "start"
  /\ \E r \in {InputFile_new(file, Password, verify)} :
       /\ input_file' = r.inp
       /\ dpc' = (CASE r.out = "ok" -> "pull" [] r.out = "err" -> "failed"
                     [] OTHER -> "panicked")
       /\ wpc' = IF r.out = "ok" THEN "recv" ELSE wpc
       /\ errors' = IF r.out = "err"
                    THEN Append(errors, [by |-> "open", err |-> r.err])
                    ELSE errors
       /\ panicked' = (r.out = "panic")
       /\ res' = r.out
  /\ op' = "open"
  /\ UNCHANGED <<file, verify, queue, pending, writing, sink, written_frames,
                 version_log, decoded, harnessVars>>

\* mutation: a Version record is pushed like any other
DecodePull_forward_version ==
  /\ dpc = "pull"
  /\ \E r \in {next(input_file.v, file)} :
     LET got == r.out = "ok" /\ r.val.some
         version == FALSE
     IN
       /\ input_file' = Some(r.inp)
       /\ dpc' = (CASE r.out = "panic" -> "panicked"
                     [] r.out = "err" -> "failed"
                     [] ~got -> "done"
                     [] version -> "pull"
                     [] OTHER -> "push")
       /\ pending' = IF got /\ ~version THEN r.val ELSE None
       /\ version_log' = IF version THEN Append(version_log, r.val.v.idx)
                         ELSE version_log
       /\ decoded' = IF got THEN Append(decoded, r.val.v.idx) ELSE decoded
       /\ errors' = IF r.out = "err"
                    THEN Append(errors, [by |-> "decode", err |-> r.err])
                    ELSE errors
       /\ panicked' = (r.out = "panic")
       /\ res' = r.out
  /\ op' = "pull"
  /\ UNCHANGED <<file, verify, wpc, queue, writing, sink, written_frames,
                 harnessVars>>

\* mutation: after an error the decode thread pulls again
DecodePull_retry ==
  /\ dpc = "pull"
  /\ \E r \in {next(input_file.v, file)} :
     LET got == r.out = "ok" /\ r.val.some
         version == IF got THEN r.val.v.kind = "Version" ELSE FALSE
     IN
       /\ input_file' = Some(r.inp)
       /\ dpc' = (CASE r.out = "panic" -> "panicked"
                     [] r.out = "err" -> "pull"
                     [] ~got -> "done"
                     [] version -> "pull"
                     [] OTHER -> "push")
       /\ pending' = IF got /\ ~version THEN r.val ELSE None
       /\ version_log' = IF version THEN Append(version_log, r.val.v.idx)
                         ELSE version_log
       /\ decoded' = IF got THEN Append(decoded, r.val.v.idx) ELSE decoded
       /\ errors' = IF r.out = "err"
                    THEN Append(errors, [by |-> "decode", err |-> r.err])
                    ELSE errors
       /\ panicked' = (r.out = "panic")
       /\ res' = r.out
  /\ op' = "pull"
  /\ UNCHANGED <<file, verify, wpc, queue, writing, sink, written_frames,
                 harnessVars>>

\* the decode thread pulls the next frame: End ends the thread, an error
\* stops it, a Version is logged, any other frame is to be pushed
DecodePull ==
  /\ dpc = "pull"
  /\ \E r \in {next(input_file.v, file)} :
     LET got == r.out = "ok" /\ r.val.some
         version == IF got THEN r.val.v.kind = "Version" ELSE FALSE
     IN
       /\ input_file' = Some(r.inp)
       /\ dpc' = (CASE r.out = "panic" -> "panicked"
                     [] r.out = "err" -> "failed"
                     [] ~got -> "done"
                     [] version -> "pull"
                     [] OTHER -> "push")
       /\ pending' = IF got /\ ~version THEN r.val ELSE None
       /\ version_log' = IF version THEN Append(version_log, r.val.v.idx)
                         ELSE version_log
       /\ decoded' = IF got THEN Append(decoded, r.val.v.idx) ELSE decoded
       /\ errors' = IF r.out = "err"
                    THEN Append(errors, [by |-> "decode", err |-> r.err])
                    ELSE errors
       /\ panicked' = (r.out = "panic")
       /\ res' = r.out
  /\ op' = "pull"
  /\ UNCHANGED <<file, verify, wpc, queue, writing, sink, written_frames,
                 harnessVars>>

\* mutation: the push does not wait for room
DecodePush_unbounded ==
  /\ dpc = "push"
  /\ IF wpc \in {"failed", "panicked"} THEN
       /\ dpc' = "cancelled"
       /\ queue' = queue
     ELSE
       /\ dpc' = "pull"
       /\ queue' = Append(queue, pending.v)
  /\ pending' = None
  /\ op' = "push" /\ res' = "ok"
  /\ UNCHANGED <<file, verify, input_file, wpc, writing, sink, written_frames,
                 errors, version_log, decoded, panicked, harnessVars>>

\* mutation: a failed push is reported as an error of the decode thread
DecodePush_report ==
  /\ dpc = "push"
  /\ IF wpc \in {"failed", "panicked"} THEN
       /\ dpc' = "failed"
       /\ queue' = queue
       /\ errors' = Append(errors, [by |-> "decode", err |-> "send failed"])
     ELSE
       /\ Len(queue) < QueueCapacity
       /\ dpc' = "pull"
       /\ queue' = Append(queue, pending.v)
       /\ errors' = errors
  /\ pending' = None
  /\ op' = "push" /\ res' = "ok"
  /\ UNCHANGED <<file, verify, input_file, wpc, writing, sink, written_frames,
                 version_log, decoded, panicked, harnessVars>>

\* the decode thread pushes the frame: it waits while the queue is full, and
\* stops without an error when the write thread is gone
DecodePush ==
  /\ dpc = "push"
  /\ IF wpc \in {"failed", "panicked"} THEN
       /\ dpc' = "cancelled"
       /\ queue' = queue
     ELSE
       /\ Len(queue) < QueueCapacity
       /\ dpc' = "pull"
       /\ queue' = Append(queue, pending.v)
  /\ pending' = None
  /\ op' = "push" /\ res' = "ok"
  /\ UNCHANGED <<file, verify, input_file, wpc, writing, sink, written_frames,
                 errors, version_log, decoded, panicked, harnessVars>>

\* the write thread takes the oldest frame, or ends when the queue is empty
\* and the decode thread is gone
WriterRecv ==
  /\ wpc = "recv"
  /\ IF queue # <<>> THEN
       /\ writing' = Some(Head(queue))
       /\ queue' = Tail(queue)
       /\ wpc' = "write"
     ELSE
       /\ dpc \in {"done", "failed", "cancelled", "panicked"}
       /\ writing' = None
       /\ queue' = queue
       /\ wpc' = "done"
  /\ op' = "recv" /\ res' = "ok"
  /\ UNCHANGED <<file, verify, input_file, dpc, pending, sink, written_frames,
                 errors, version_log, decoded, panicked, harnessVars>>

\* the write thread forwards the frame to the sink; a sink operation may
\* fail (io_ok = FALSE), which ends the thread like an unexpected frame does,
\* and write_statement of the raw sink returns Ok for a statement it passes
\* over before it counts it (passed_over)
WriterWrite ==
  /\ wpc = "write"
  /\ \E io_ok \in BOOLEAN,
        passed_over \in (IF writing.v.kind = "Statement" THEN BOOLEAN ELSE {FALSE}) :
       \E w \in {write_frame(writing.v)} :
         LET done == w.out = "ok" /\ io_ok
             rows == [k \in 1..Len(w.calls) |->
                        [op |-> w.calls[k], idx |-> writing.v.idx,
                         altered |-> writing.v.altered]]
         IN
           /\ passed_over => io_ok
           /\ sink' = IF done THEN sink \o rows ELSE sink
           /\ written_frames' = IF done /\ ~passed_over
                                THEN written_frames + Len(rows)
                                ELSE written_frames
           /\ wpc' = (CASE done -> "recv"
                        [] w.out = "panic" -> "panicked"
                        [] OTHER -> "failed")
           /\ errors' = IF done \/ w.out = "panic" THEN errors
                        ELSE Append(errors,
                                    [by |-> "sink",
                                     err |-> IF w.out = "err"
                                             THEN "unexpected frame found"
                                             ELSE "sink operation failed"])
           /\ res' = IF done THEN "ok" ELSE "err"
  /\ writing' = None
  /\ op' = "write"
  /\ UNCHANGED <<file, verify, input_file, dpc, queue, pending, version_log,
                 decoded, panicked, harnessVars>>

Next == Open \/ DecodePull \/ DecodePush \/ WriterRecv \/ WriterWrite

Spec == Init /\ [][Next]_vars

(* ------------------------------ claims -------------------------------- *)

\* the frames and payload blocks whose bytes were changed after writing
Tampered(u) == u.tamper # "none" \/ u.ptamper # "none"
\* an authentication error has been reported
MacFailed ==
  \E k \in 1..Len(errors) :
    errors[k] = [by |-> "decode", err |-> "HMAC verification failed"]
\* the places in the file of the records between the two threads and in
\* the sink, oldest first
IdxOf(records) == [k \in 1..Len(records) |-> records[k].idx]
Held(slot) == IF slot.some THEN <<slot.v.idx>> ELSE <<>>
InFlight == Held(writing) \o IdxOf(queue) \o Held(pending)
Written == IdxOf(sink)
\* the decoded records that are to be forwarded: all but Version
IsVersion(i) == file[i].wire.fields = {"version"}
Forwardable == SelectSeq(decoded, LAMBDA i : ~IsVersion(i))
IsPrefix(s, t) == Len(s) <= Len(t) /\ \A k \in 1..Len(s) : s[k] = t[k]
Range(s) == {s[k] : k \in 1..Len(s)}

\* C4: with verification enabled, reading a frame or payload block whose
\* ciphertext or tag was changed yields the error "HMAC verification
\* failed"; the decode thread stops there: the record of the failing frame
\* and every later one is never decoded, queued or written, and no later
\* step moves the reader or decodes a record.
C4_MacFailureStops ==
  /\ [](  /\ (verify /\ input_file.some) =>
               \A i \in 2..input_file.v.reader :
                 Tampered(file[i]) => (MacFailed /\ input_file.v.reader = i)
          /\ MacFailed =>
               /\ dpc = "failed" /\ pending = None /\ verify
               /\ Tampered(file[input_file.v.reader])
               /\ \A i \in Range(decoded) \cup Range(InFlight) \cup Range(Written) :
                    i < input_file.v.reader )
  /\ [][MacFailed => (input_file' = input_file /\ decoded' = decoded
                      /\ dpc' = dpc /\ pending' = pending)]_vars

\* a payload block failed verification after records before it had been
\* decoded, and the write thread has written them and ended
C4_Witness ==
  /\ MacFailed /\ wpc = "done" /\ Len(sink) >= 3
  /\ file[input_file.v.reader].ptamper = "tag"

\* C5: the sink receives the forwardable records in the order of their
\* decoding: what is written is a prefix of what was decoded; together with
\* the records still held by the threads and the queue it is exactly what
\* was decoded as long as the write thread runs, and all of it once the
\* write thread has ended normally; no record is written twice.
C5_SinkOrder ==
  /\ IsPrefix(Written, Forwardable)
  /\ \A j, k \in 1..Len(decoded) : j < k => decoded[j] < decoded[k]
  /\ wpc \in {"recv", "write"} => Written \o InFlight = Forwardable
  /\ wpc = "done" => Written = Forwardable
  /\ \A k \in 1..Len(sink) : ~IsVersion(sink[k].idx)

\* all the records of a file were written while others were still queued
C5_Witness ==
  /\ wpc = "done" /\ dpc = "done" /\ Len(sink) >= QueueCapacity + 1
  /\ Len(version_log) >= 1

\* the write thread has gone and dropped its end of the channel
ReceiverGone == wpc \in {"failed", "panicked"}
\* the decode thread waits in a push on a full queue
Blocked == dpc = "push" /\ Len(queue) = QueueCapacity /\ ~ReceiverGone

SinkFailed == \E k \in 1..Len(errors) : errors[k].by = "sink"

\* C7: a write thread that gets an error from the sink has stopped: it
\* takes nothing more from the queue and writes nothing more.  The decode
\* thread's next push then fails, on which it stops without decoding
\* further and without an error of its own: the errors of the run are then
\* the sink's error alone.
C7_SinkErrorCancels ==
  /\ [](  /\ SinkFailed <=> wpc = "failed"
          /\ (wpc = "failed" /\ dpc = "push") =>
               (ENABLED DecodePush /\ ~ENABLED DecodePull)
          /\ dpc = "cancelled" =>
               /\ wpc = "failed" /\ pending = None
               /\ Len(errors) = 1 /\ errors[1].by = "sink" )
  /\ [][wpc = "failed" =>
          /\ wpc' = "failed" /\ queue' = queue /\ sink' = sink
          /\ written_frames' = written_frames
          /\ dpc = "push" => (dpc' = "cancelled" /\ errors' = errors
                              /\ decoded' = decoded
                              /\ input_file' = input_file)
          /\ dpc = "cancelled" => (dpc' = dpc /\ errors' = errors
                                   /\ decoded' = decoded
                                   /\ input_file' = input_file)]_vars

\* a sink operation failed with records still queued, and the decode
\* thread has stopped on its push
C7_Witness ==
  /\ dpc = "cancelled" /\ wpc = "failed" /\ Len(queue) >= 2
  /\ errors = <<[by |-> "sink", err |-> "sink operation failed"]>>
  /\ input_file.v.reader < Len(file)

IsEnd(u) == u.wire.fields = {"end"}

\* C10: when the reader decodes End the decode thread ends without an
\* error (and ends only so); End is not decoded into a record that is
\* queued or written, and the frames after End are never read: the
\* reader stays at End and nothing from behind it is decoded, queued or
\* written.
C10_EndTerminates ==
  /\ [](  /\ dpc = "done" <=>
               ( /\ input_file.some /\ input_file.v.reader >= 2
                 /\ IsEnd(file[input_file.v.reader])
                 /\ file[input_file.v.reader].tamper = "none" )
          /\ dpc = "done" =>
               /\ \A k \in 1..Len(errors) : errors[k].by = "sink"
               /\ ~panicked /\ pending = None
               /\ \A i \in Range(decoded) \cup Range(InFlight) \cup Range(Written) :
                    i < input_file.v.reader )
  /\ [][dpc = "done" => ( /\ dpc' = "done" /\ input_file' = input_file
                          /\ decoded' = decoded /\ pending' = pending )]_vars

\* End was decoded with frames behind it in the file, and the write thread
\* has written the records before End and ended
C10_Witness ==
  /\ dpc = "done" /\ wpc = "done" /\ Len(sink) >= 3
  /\ input_file.v.reader < Len(file) /\ errors = <<>>

\* a payload variant holds the payload block that follows its own frame,
\* as long as the frame declared
PayloadKinds == {"Attachment", "Avatar", "Sticker"}
Carries(frame) ==
  frame.kind \in PayloadKinds =>
    /\ frame.data.some
    /\ frame.data.v.len = frame.data_length
    /\ frame.data.v.idx = frame.idx

\* C13: every Attachment, Avatar or Sticker that next returned holds a
\* payload of the declared length, read from the block that follows its own
\* frame, and the write thread never unwraps an absent payload.
C13_PayloadAttached ==
  /\ pending.some => Carries(pending.v)
  /\ \A k \in 1..Len(queue) : Carries(queue[k])
  /\ writing.some => Carries(writing.v)
  /\ wpc # "panicked"

\* an avatar with a payload of two or more bytes is handed to the sink
C13_Witness ==
  /\ wpc = "write" /\ writing.some
  /\ writing.v.kind = "Avatar" /\ writing.v.data_length >= 2
  /\ writing.v.data.some /\ writing.v.data.v.len = writing.v.data_length

EndOfFileMet ==
  \/ op = "open" /\ file = <<>>
  \/ /\ op = "pull" /\ res # "ok"
     /\ input_file.some /\ input_file.v.reader = Len(file)
     /\ \A i \in 2..Len(file) : ~Tampered(file[i])

\* C19 as stated: a read that meets the end of the file inside a frame
\* (here: in its length prefix) ends with a fatal error value; it never
\* panics and yields no record.
C19_EndOfFileIsError ==
  EndOfFileMet =>
    /\ res = "err" /\ ~panicked
    /\ \E k \in 1..Len(errors) : errors[k].by \in {"open", "decode"}
    /\ pending = None

\* the pipeline on the files that hold an End, with its two threads
\* scheduled: while a thread can take a step some thread takes one (every
\* step consumes input or moves a record on, so no thread is starved), and a
\* sink operation returns
InitFair ==
  /\ Init
  /\ file # <<>> /\ Len(file) > 2
  /\ \E i \in 2..Len(file) : IsEnd(file[i])

\* some thread can take a step
Runnable ==
  \/ dpc \in {"start", "pull"}
  \/ dpc = "push" /\ (ReceiverGone \/ Len(queue) < QueueCapacity)
  \/ wpc = "recv" /\ (queue # <<>> \/ dpc \in {"done", "failed", "cancelled", "panicked"})
  \/ wpc = "write"

\* weak fairness of Next, with Runnable for ENABLED <<Next>>_vars
SpecFair ==
  /\ InitFair /\ [][Next]_vars
  /\ ([]<>~Runnable \/ []<><<Next>>_vars)

\* a well-formed stream: a header, then authentic frames of one field each,
\* none of them a header, with an End among them
WellFormed(f) ==
  /\ Len(f) >= 2 /\ f[1].wire.fields = {"header"}
  /\ \A i \in 2..Len(f) :
       /\ ~Tampered(f[i]) /\ Cardinality(f[i].wire.fields) = 1
       /\ f[i].wire.fields # {"header"}
       /\ f[i].body_len >= 0
  /\ \E i \in 2..Len(f) : IsEnd(f[i])

\* the decode thread has seen End and the queue is consumed
Drained == dpc = "done" /\ queue = <<>> /\ ~writing.some /\ pending = None
\* an operation of the sink has returned an error
SinkOperationFailed ==
  \E k \in 1..Len(errors) :
    errors[k] = [by |-> "sink", err |-> "sink operation failed"]

\* C21 as stated: on a well-formed stream that ends in End, with a sink
\* whose operations succeed, the pipeline reaches Drained, and then the
\* queue is empty and every record that was pushed has been written.
\* Every run is finite and, under SpecFair, goes on while a thread can take
\* a step: it reaches Drained exactly if it cannot stop anywhere else.
C21_EventuallyDrained ==
  WellFormed(file) =>
    /\ Runnable \/ Drained \/ SinkOperationFailed
    /\ (Drained /\ ~SinkFailed) => (queue = <<>> /\ Written = Forwardable)

(* ===================================================================== *)
(* SpecLegacy: decode_backup of main.rs, one thread, on the same files    *)
(* ===================================================================== *)

\* the has_* tests of frame_fields in decode_backup
LegacyFields ==
  {"header", "statement", "preference", "attachment", "version", "end",
   "avatar", "sticker"}

\* main.rs decrypt(key, counter, ciphertext) on the body of frame i, with a
\* cipher of its own: the writer's plaintext under the writer's key and IV
main_decrypt(key, counter, f, i) ==
  IF key = WriterCipherKey(f) /\ counter = FrameIv(f, i)
  THEN [parses |-> TRUE, wire |-> f[i].wire, altered |-> f[i].tamper = "ct"]
  ELSE [parses |-> FALSE, wire |-> f[i].wire, altered |-> TRUE]

\* mutation: the MAC of a frame is compared whatever the flag says
main_read_frame_always_verify(f, reader, cd, verify_mac_flag) ==
  LET i == reader + 1
      counted(c, plain, len) ==
        [out |-> IF c.panic THEN "panic" ELSE "ok", err |-> "",
         cd |-> Some([hmac |-> IF TRUE THEN NewHmac(cd.v.hmac.k)
                               ELSE cd.v.hmac,
                      cipher_key |-> cd.v.cipher_key,
                      counter |-> c.counter]),
         len |-> len, plain |-> plain]
      checked_mac(calculated_mac, frame_mac) ==
        IF TRUE /\ calculated_mac # frame_mac
        THEN [out |-> "err", err |-> "MacVerificationError",
              cd |-> Some([cd.v EXCEPT !.hmac = NewHmac(cd.v.hmac.k)]),
              len |-> 0, plain |-> None]
        ELSE counted(increase_counter(cd.v.counter, None),
                     main_decrypt(cd.v.cipher_key, cd.v.counter, f, i),
                     f[i].body_len + 10)
  IN  IF i > Len(f) THEN
        [out |-> "err", err |-> "failed to fill whole buffer", cd |-> cd,
         len |-> 0, plain |-> None]
      ELSE IF cd.some /\ f[i].body_len < 0 THEN
        [out |-> "panic", err |-> "frame_content.len() - 10", cd |-> cd,
         len |-> 0, plain |-> None]
      ELSE IF ~cd.some THEN
        [out |-> "ok", err |-> "", cd |-> cd, len |-> f[i].body_len,
         plain |-> [parses |-> TRUE, wire |-> f[i].wire, altered |-> FALSE]]
      ELSE
        checked_mac(Truncate(Hmac(cd.v.hmac.k, cd.v.hmac.acc \o BodyRead(f, i)),
                             10),
                    FrameTag(f, i))

\* main.rs read_frame on the frame after position reader; cd is the
\* Option<CipherData>
main_read_frame(f, reader, cd, verify_mac_flag) ==
  LET i == reader + 1
      counted(c, plain, len) ==
        [out |-> IF c.panic THEN "panic" ELSE "ok", err |-> "",
         cd |-> Some([hmac |-> IF verify_mac_flag THEN NewHmac(cd.v.hmac.k)
                               ELSE cd.v.hmac,
                      cipher_key |-> cd.v.cipher_key,
                      counter |-> c.counter]),
         len |-> len, plain |-> plain]
      checked_mac(calculated_mac, frame_mac) ==
        IF verify_mac_flag /\ calculated_mac # frame_mac
        THEN [out |-> "err", err |-> "MacVerificationError",
              cd |-> Some([cd.v EXCEPT !.hmac = NewHmac(cd.v.hmac.k)]),
              len |-> 0, plain |-> None]
        ELSE counted(increase_counter(cd.v.counter, None),
                     main_decrypt(cd.v.cipher_key, cd.v.counter, f, i),
                     f[i].body_len + 10)
  IN  IF i > Len(f) THEN
        [out |-> "err", err |-> "failed to fill whole buffer", cd |-> cd,
         len |-> 0, plain |-> None]
      ELSE IF cd.some /\ f[i].body_len < 0 THEN
        [out |-> "panic", err |-> "frame_content.len() - 10", cd |-> cd,
         len |-> 0, plain |-> None]
      ELSE IF ~cd.some THEN
        [out |-> "ok", err |-> "", cd |-> cd, len |-> f[i].body_len,
         plain |-> [parses |-> TRUE, wire |-> f[i].wire, altered |-> FALSE]]
      ELSE
        checked_mac(Truncate(Hmac(cd.v.hmac.k, cd.v.hmac.acc \o BodyRead(f, i)),
                             10),
                    FrameTag(f, i))

\* main.rs read_attachment for the payload block of frame i: the plaintext
\* goes to the writer chunk by chunk, then the MAC is compared
main_read_attachment(f, i, c, length, verify_mac_flag) ==
  LET primed == c.hmac.acc \o c.counter
      written == [op |-> "write_all", idx |-> i,
                  altered |-> ~( /\ c.cipher_key = WriterCipherKey(f)
                                 /\ c.counter = PayloadIv(f, i)
                                 /\ f[i].ptamper # "ct" )]
      rows == IF length > 0 THEN <<written>> ELSE <<>>
      counted(n) ==
        [out |-> IF n.panic THEN "panic" ELSE "ok", err |-> "", rows |-> rows,
         cd |-> [hmac |-> IF verify_mac_flag THEN NewHmac(c.hmac.k)
                          ELSE [c.hmac EXCEPT !.acc = primed],
                 cipher_key |-> c.cipher_key, counter |-> n.counter]]
      checked_mac(calculated_mac, mac) ==
        IF verify_mac_flag /\ calculated_mac # mac
        THEN [out |-> "err", err |-> "MacVerificationError", rows |-> rows,
              cd |-> [c EXCEPT !.hmac = NewHmac(c.hmac.k)]]
        ELSE counted(increase_counter(c.counter, None))
  IN  checked_mac(Truncate(Hmac(c.hmac.k, primed \o PayloadRead(f, i)), 10),
                  PayloadTag(f, i))

\* what an iteration of the loop leaves: where the function is, its
\* variables, the CipherData, what was written and logged
Iteration(pc, err, l, cd, rows, versions) ==
  [pc |-> pc, err |-> err, local |-> l, cd |-> cd, rows |-> rows,
   versions |-> versions]

\* one iteration of the loop of decode_backup; world is what the database
\* and the file system answer: "ok", "skip" (a statement the function
\* passes over with continue) or "fails"
decode_backup(f, password, verify_mac_flag, l, cipher_data0, world) ==
  LET i == l.reader + 1
      counted(m) == [m EXCEPT !.frame_count = @ + 1]
      attached(m, a, create) ==
        IF a.out = "err"
        THEN Iteration("failed", a.err, m, Some(a.cd), <<create>> \o a.rows, <<>>)
        ELSE IF a.out = "panic"
        THEN Iteration("panicked", "increase_counter", m, Some(a.cd),
                       <<create>> \o a.rows, <<>>)
        ELSE Iteration("loop", "",
                       counted([m EXCEPT !.attachment_count = @ + 1,
                                         !.seek_position = @ + f[i].wire.data_length]),
                       Some(a.cd), <<create>> \o a.rows, <<>>)
      dispatched(m, cd, wire, field, altered) ==
        IF field = "header" THEN
          Iteration("loop", "", counted(m),
                    Some([hmac |-> NewHmac(MacKey(password, wire.salt)),
                          cipher_key |-> CipherKey(password, wire.salt),
                          counter |-> wire.iv]),
                    <<>>, <<>>)
        ELSE IF ~cd.some THEN
          Iteration("panicked", "Read non-header frame before header frame",
                    m, cd, <<>>, <<>>)
        ELSE IF field = "version" THEN
          Iteration("loop", "", counted(m), cd, <<>>, <<i>>)
        ELSE IF field \in PayloadFields THEN
          IF world = "fails" THEN
            Iteration("panicked", "Failed to open file", m, cd, <<>>, <<>>)
          ELSE
            attached(m, main_read_attachment(f, i, cd.v, wire.data_length,
                                             verify_mac_flag),
                     [op |-> "File::create", idx |-> i, altered |-> altered])
        ELSE IF field = "statement" THEN
          IF world = "skip" THEN Iteration("loop", "", m, cd, <<>>, <<>>)
          ELSE IF world = "fails" THEN
            Iteration("failed", "sqlite", m, cd, <<>>, <<>>)
          ELSE Iteration("loop", "", counted(m), cd,
                         <<[op |-> "statement", idx |-> i, altered |-> altered]>>,
                         <<>>)
        ELSE IF field = "preference" THEN
          IF world = "fails" THEN
            Iteration("failed", "write_to_file", m, cd, <<>>, <<>>)
          ELSE Iteration("loop", "", counted(m), cd,
                         <<[op |-> "preference", idx |-> i, altered |-> altered]>>,
                         <<>>)
        ELSE Iteration("done", "", m, cd, <<>>, <<>>)
      parsed(m, cd, plain) ==
        IF ~plain.parses THEN
          Iteration("panicked", "Could not parse frame", m, cd, <<>>, <<>>)
        ELSE IF Cardinality(plain.wire.fields \cap LegacyFields) # 1 THEN
          Iteration("panicked", "Frame with an unsupported number of fields found",
                    m, cd, <<>>, <<>>)
        ELSE dispatched(m, cd, plain.wire,
                        CHOOSE x \in plain.wire.fields \cap LegacyFields : TRUE,
                        plain.altered)
      read(r) ==
        IF r.out = "err" THEN Iteration("failed", r.err, l, r.cd, <<>>, <<>>)
        ELSE IF r.out = "panic"
        THEN Iteration("panicked", "increase_counter", l, r.cd, <<>>, <<>>)
        ELSE parsed([l EXCEPT !.reader = i, !.seek_position = @ + r.len],
                    r.cd, r.plain)
  IN  read(main_read_frame(f, l.reader, cipher_data0, verify_mac_flag))

\* the files of the era before the header carried a version
LegacyFiles == { f \in Files : f = <<>> \/ f[1].wire.version = 0 }

InitLegacy ==
  /\ file \in LegacyFiles
  /\ verify \in BOOLEAN
  /\ local = [LocalIdle EXCEPT !.pc = "loop"]
  /\ cipher_data = None
  /\ sink = <<>> /\ errors = <<>> /\ version_log = <<>>
  /\ panicked = FALSE
  /\ op = "init" /\ res = "none"
  /\ input_file = None /\ decrypter = None
  /\ dpc = "start" /\ wpc = "idle"
  /\ queue = <<>> /\ pending = None /\ writing = None
  /\ written_frames = 1 /\ decoded = <<>>
  /\ iv0 = HeaderIv /\ calls = 0 /\ legacy_calls = 0 /\ before = HeaderIv
  /\ MacIdle
  /\ UnitIdle

\* decode_backup runs its loop once more
DecodeBackupLoop ==
  /\ local.pc = "loop"
  /\ \E world \in {"ok", "skip", "fails"} :
       \E it \in {decode_backup(file, Password, verify, local, cipher_data, world)} :
         /\ local' = [it.local EXCEPT !.pc = it.pc]
         /\ cipher_data' = it.cd
         /\ sink' = sink \o it.rows
         /\ version_log' = version_log \o it.versions
         /\ errors' = IF it.pc = "failed"
                      THEN Append(errors, [by |-> "decode_backup", err |-> it.err])
                      ELSE errors
         /\ panicked' = (it.pc = "panicked")
         /\ res' = (CASE it.pc = "failed" -> "err" [] it.pc = "panicked" -> "panic"
                      [] OTHER -> "ok")
  /\ op' = "decode_backup"
  /\ UNCHANGED <<file, verify, input_file, decrypter, dpc, wpc, queue, pending,
                 writing, written_frames, decoded, iv0, calls, legacy_calls,
                 before, macVars, codec, out, config, derivation>>

NextLegacy == DecodeBackupLoop

SpecLegacy == InitLegacy /\ [][NextLegacy]_vars

\* the key material derived from the header at the head of the file
FirstKeys(cd) ==
  /\ cd.cipher_key = CipherKey(Password, file[1].wire.salt)
  /\ cd.hmac.k = MacKey(Password, file[1].wire.salt)
  /\ \A j \in 4..15 : At(cd.counter, j) = At(file[1].wire.iv, j)

\* C8 as stated, of decode_backup: when the first frame read is not a
\* Header the run fails with an error value; no CipherData is constructed
\* and nothing is written.
C8_FirstFrameNotHeader ==
  ( /\ local.reader >= 1 /\ Cardinality(file[1].wire.fields) = 1
    /\ file[1].wire.fields # {"header"} ) =>
    /\ local.pc = "failed" /\ ~panicked
    /\ cipher_data = None /\ sink = <<>>

\* C9 as stated, of decode_backup: a Header read after the first frame ends
\* the run with an error, writes nothing and leaves the key, the MAC key and
\* the IV of the CipherData as the first header gave them.
C9_SecondHeaderFatal ==
  \A i \in 2..local.reader :
    file[i].wire.fields = {"header"} =>
      /\ local.pc = "failed" /\ local.reader = i
      /\ FirstKeys(cipher_data.v)
      /\ \A k \in 1..Len(sink) : sink[k].idx # i

\* C11 as stated, of decode_backup: a frame in which the number of
\* populated top-level fields is zero or is two or more makes the run fail
\* with an error value, without a panic.
C11_FieldCountError ==
  (local.reader >= 1 /\ Cardinality(file[local.reader].wire.fields) # 1) =>
    (local.pc = "failed" /\ ~panicked)

\* the CipherData with its MAC as new
Fresh(cd) ==
  IF cd.some THEN Some([cd.v EXCEPT !.hmac = NewHmac(cd.v.hmac.k)]) ELSE cd

ParameterSamples ==
  { [type |-> "stringParamter", v |-> <<97>>],
    [type |-> "integerParameter", v |-> <<0, 5>>],
    [type |-> "integerParameter", v |-> <<1, 0>>],
    [type |-> "doubleParameter", v |-> <<1, 5>>],
    [type |-> "blobParameter", v |-> <<1>>],
    [type |-> "nullparameter", v |-> <<>>],
    [type |-> "none", v |-> <<>>] }

ParameterLists ==
  UNION { [1..n -> ParameterSamples] : n \in 0..MaxParameters }

\* keyValue values: one of each type, and none set
ValueSamples ==
  { [type |-> "blobValue", v |-> <<2>>], [type |-> "booleanValue", v |-> <<1>>],
    [type |-> "floatValue", v |-> <<0, 5>>], [type |-> "integerValue", v |-> <<7>>],
    [type |-> "longValue", v |-> <<8>>], [type |-> "stringValue", v |-> <<115>>],
    [type |-> "none", v |-> <<>>] }

FieldSets == { S \in SUBSET Range(Fields) : Cardinality(S) <= 2 }

\* the wire frames Frame::new is applied to; sub-fields of fields that are
\* not populated have their default
BackupFrames ==
  UNION { { BackupFrame(S, salt, v, version, data_length, <<"INSERT">>,
                        parameters, <<"file", "key", "value">>, id, id + 1,
                        "name", version + 2, "key", value) :
              salt \in (IF "header" \in S THEN {Salt, <<>>} ELSE {<<>>}),
              v \in (IF "header" \in S THEN {HeaderIv} ELSE {<<>>}),
              version \in (IF {"header", "version"} \cap S # {} THEN {0, 1} ELSE {0}),
              data_length \in (IF PayloadFields \cap S # {} THEN {0, 3} ELSE {0}),
              parameters \in (IF "statement" \in S THEN ParameterLists ELSE {<<>>}),
              id \in (IF {"attachment", "sticker"} \cap S # {} THEN {0, 4} ELSE {0}),
              value \in (IF "keyValue" \in S THEN ValueSamples
                         ELSE {[type |-> "none", v |-> <<>>]}) } :
          S \in FieldSets }

InitCodec ==
  /\ codec \in { [frame |-> b, ret |-> None] : b \in BackupFrames }
  /\ out = None /\ config = None /\ derivation = None
  /\ file = <<>> /\ verify = FALSE /\ input_file = None
  /\ dpc = "start" /\ wpc = "idle"
  /\ queue = <<>> /\ pending = None /\ writing = None
  /\ sink = <<>> /\ written_frames = 1
  /\ errors = <<>> /\ version_log = <<>> /\ decoded = <<>>
  /\ local = LocalIdle
  /\ cipher_data = None /\ decrypter = None
  /\ panicked = FALSE
  /\ op = "init" /\ res = "none"
  /\ iv0 = HeaderIv /\ calls = 0 /\ legacy_calls = 0 /\ before = HeaderIv
  /\ MacIdle

\* Frame::new is called on the wire frame
FrameNew ==
  /\ codec.ret = None
  /\ \E r \in {frame_new(codec.frame)} :
       /\ codec' = [codec EXCEPT !.ret = Some(r)]
       /\ panicked' = (r.out = "panic")
  /\ UNCHANGED <<decrypter, cipher_data, op, res, iv0, calls, legacy_calls,
                 before, fed, checked, ops, file, verify, input_file, dpc,
                 wpc, queue, pending, writing, sink, written_frames, errors,
                 version_log, decoded, local, out, config, derivation>>

\* Frame::set_data is called on a payload variant that Frame::new returned
SetData ==
  /\ codec.ret # None /\ codec.ret.v.out = "ok"
  /\ codec.ret.v.frame.kind \in {"Attachment", "Avatar", "Sticker"}
  /\ codec.ret.v.frame.data = None
  /\ codec' = [codec EXCEPT !.ret.v.frame =
                 set_data(@, [idx |-> 0, len |-> @.data_length, altered |-> FALSE])]
  /\ UNCHANGED <<decrypter, cipher_data, panicked, op, res, iv0, calls,
                 legacy_calls, before, fed, checked, ops, file, verify,
                 input_file, dpc, wpc, queue, pending, writing, sink,
                 written_frames, errors, version_log, decoded, local, out,
                 config, derivation>>

NextCodec == FrameNew \/ SetData

SpecCodec == InitCodec /\ [][NextCodec]_vars

\* the sub-fields that a populated field carries on the wire, under the
\* names of the Frame variant
WireSubFields(field, frame) ==
  CASE field = "header" ->
         [salt |-> frame.salt, iv |-> frame.iv, version |-> frame.version]
    [] field = "statement" ->
         [statement |-> frame.statement, parameter |-> frame.parameters]
    [] field = "preference" -> [preference |-> frame.preference]
    [] field = "attachment" ->
         [data_length |-> frame.data_length, id |-> frame.id, row |-> frame.row]
    [] field = "version" -> [version |-> frame.db_version]
    [] field = "end" -> [kind |-> "End"]
    [] field = "avatar" -> [data_length |-> frame.data_length, name |-> frame.name]
    [] field = "sticker" -> [data_length |-> frame.data_length, row |-> frame.row]
    [] field = "keyValue" -> [key |-> frame.key, value |-> frame.value.v]

\* the wire value that a sub-field of a Frame stands for
WireValueOf(name, val) ==
  CASE name = "parameter" ->
         [k \in 1..Len(val) |->
            CASE val[k].type = "Text" -> [type |-> "stringParamter", v |-> val[k].v]
              [] val[k].type = "Integer" ->
                   [type |-> "integerParameter", v |-> BitsOf(val[k].v)]
              [] val[k].type = "Real" -> [type |-> "doubleParameter", v |-> val[k].v]
              [] val[k].type = "Blob" -> [type |-> "blobParameter", v |-> val[k].v]
              [] val[k].type = "Null" -> [type |-> "nullparameter", v |-> <<>>]]
    [] name = "value" -> val.v
    [] OTHER -> val

KindOf(field) ==
  CASE field = "header" -> "Header" [] field = "statement" -> "Statement"
    [] field = "preference" -> "Preference" [] field = "attachment" -> "Attachment"
    [] field = "version" -> "Version" [] field = "end" -> "End"
    [] field = "avatar" -> "Avatar" [] field = "sticker" -> "Sticker"
    [] field = "keyValue" -> "KeyValue"

\* the Frame carries the variant of the field, every sub-field of the wire
\* with its value, and no payload
Preserves(rec, field, frame) ==
  /\ rec.kind = KindOf(field)
  /\ \A n \in DOMAIN WireSubFields(field, frame) :
       /\ n \in DOMAIN rec
       /\ WireValueOf(n, rec[n]) = WireSubFields(field, frame)[n]
  /\ field \in PayloadFields => rec.data = None

\* C12 as stated: for a wire frame with exactly one populated field,
\* Frame::new returns the variant of that field with every sub-field of the
\* wire (for a header: salt, iv and version) and an absent payload.
C12_SubFieldsPreserved ==
  (codec # None /\ codec.ret # None /\ codec.ret.v.out = "ok"
     /\ ("data" \in DOMAIN codec.ret.v.frame => codec.ret.v.frame.data = None)) =>
    \A field \in codec.frame.fields :
      Preserves(codec.ret.v.frame, field, codec.frame)

\* C20 as stated: a statement with a parameter of none of the known types
\* makes Frame::new return an error value.
C20_UnknownParameterIsError ==
  (codec # None /\ codec.ret # None /\ "statement" \in codec.frame.fields
     /\ \E k \in 1..Len(codec.frame.parameters) :
          codec.frame.parameters[k].type \notin ParameterTypes) =>
    (codec.ret.v.out = "err" /\ ~panicked)

(* ===================================================================== *)
(* SpecOutput: write_frame on the three sinks (output_none.rs,            *)
(* output_csv.rs, output_raw.rs)                                          *)
(* ===================================================================== *)

\* a statement text is the sequence of its pieces: starts_with and contains
\* look at pieces
StartsWith(text, pieces) ==
  Len(text) >= Len(pieces) /\ \A k \in 1..Len(pieces) : text[k] = pieces[k]
Contains(text, piece) == \E k \in 1..Len(text) : text[k] = piece

\* the result of a sink operation: Ok(()) or Err, and what it added to
\* written_frames
Done(n) == [ok |-> TRUE, inc |-> n]
Failed == [ok |-> FALSE, inc |-> 0]

\* SignalOutputNone: every operation counts and succeeds
none_write == Done(1)

\* SignalOutputCsv::write_statement: a message row is serialized for
\* "INSERT INTO sms"; the other operations count and succeed
csv_write_statement(statement, io_ok) ==
  IF StartsWith(statement, <<"INSERT", "INTO", "sms">>) /\ ~io_ok THEN Failed
  ELSE Done(1)

\* output_raw Output::write_statement: triggers, full text search tables
\* and sqlite's own tables are left out; the others are executed
raw_write_statement(statement, io_ok) ==
  IF \/ StartsWith(statement, <<"CREATE", "TRIGGER">>)
     \/ Contains(statement, "_fts")
     \/ StartsWith(statement, <<"CREATE", "TABLE", "sqlite_">>)
  THEN Done(0)
  ELSE IF ~io_ok THEN Failed
  ELSE Done(1)

\* output_raw write_attachment, write_sticker, write_avatar,
\* write_preference: the file is written, then counted
raw_write_file(io_ok) == IF ~io_ok THEN Failed ELSE Done(1)

\* output_raw write_version
raw_write_version == Done(1)

\* the operation call of sink s on a frame
sink_write(s, call, frame, io_ok) ==
  CASE s = "none" -> none_write
    [] s = "csv" /\ call = "write_statement" ->
         csv_write_statement(frame.statement, io_ok)
    [] s = "csv" -> Done(1)
    [] s = "raw" /\ call = "write_statement" ->
         raw_write_statement(frame.statement, io_ok)
    [] s = "raw" /\ call = "write_version" -> raw_write_version
    [] s = "raw" -> raw_write_file(io_ok)

Sinks == {"none", "csv", "raw"}

Texts ==
  { <<"INSERT", "INTO", "sms">>, <<"INSERT", "INTO", "part">>,
    <<"CREATE", "TABLE", "sms">>, <<"CREATE", "TRIGGER", "sms_ai">>,
    <<"CREATE", "VIRTUAL", "TABLE", "sms", "_fts">>,
    <<"CREATE", "TABLE", "sqlite_", "sequence">> }

\* the frames handed to write_frame: every variant, payloads attached
OutputFrames ==
  { [kind |-> "Statement", statement |-> t, data |-> None] : t \in Texts }
  \cup { [kind |-> k, statement |-> <<>>, data |-> None] :
           k \in {"Header", "Preference", "Version", "End", "KeyValue"} }
  \cup { [kind |-> k, statement |-> <<>>,
          data |-> Some([idx |-> 0, len |-> 1, altered |-> FALSE])] :
           k \in PayloadKinds }

InitOutput ==
  /\ out \in { [sink |-> s, written_frames |-> 1, n |-> 0, last |-> None] :
                 s \in Sinks }
  /\ codec = None /\ config = None /\ derivation = None
  /\ file = <<>> /\ verify = FALSE /\ input_file = None
  /\ dpc = "start" /\ wpc = "idle"
  /\ queue = <<>> /\ pending = None /\ writing = None
  /\ sink = <<>> /\ written_frames = 1
  /\ errors = <<>> /\ version_log = <<>> /\ decoded = <<>>
  /\ local = LocalIdle
  /\ cipher_data = None /\ decrypter = None
  /\ panicked = FALSE
  /\ op = "init" /\ res = "none"
  /\ iv0 = HeaderIv /\ calls = 0 /\ legacy_calls = 0 /\ before = HeaderIv
  /\ MacIdle

\* write_frame is called on the sink with one frame
WriteFrame ==
  /\ out.n < MaxWrites
  /\ \E frame \in OutputFrames, io_ok \in BOOLEAN :
       \E w \in {write_frame(frame)} :
         \E r \in { IF w.out = "ok"
                    THEN sink_write(out.sink, w.calls[1], frame, io_ok)
                    ELSE Failed } :
           out' = [out EXCEPT
                     !.n = @ + 1,
                     !.written_frames = @ + r.inc,
                     !.last = Some([frame |-> frame, calls |-> w.calls,
                                    ok |-> r.ok,
                                    before |-> out.written_frames])]
  /\ UNCHANGED <<decrypter, cipher_data, panicked, op, res, iv0, calls,
                 legacy_calls, before, fed, checked, ops, file, verify,
                 input_file, dpc, wpc, queue, pending, writing, sink,
                 written_frames, errors, version_log, decoded, local, codec,
                 config, derivation>>

NextOutput == WriteFrame

SpecOutput == InitOutput /\ [][NextOutput]_vars

\* the sink operation that the spec names for a Record variant
MatchingOperation(kind) ==
  CASE kind = "Statement" -> "write_statement"
    [] kind = "Preference" -> "write_preference"
    [] kind = "Attachment" -> "write_attachment"
    [] kind = "Avatar" -> "write_avatar"
    [] kind = "Sticker" -> "write_sticker"
    [] kind = "KeyValue" -> "write_keyvalue"

\* C15 as stated: write_frame invokes exactly the matching sink operation
\* for a Statement, Preference, Attachment, Avatar, Sticker or KeyValue, and
\* for a Header or End it invokes none and returns an error.
C15_OneMatchingOperation ==
  (out # None /\ out.last # None) =>
    /\ out.last.v.frame.kind \in {"Statement", "Preference", "Attachment",
                                  "Avatar", "Sticker", "KeyValue"} =>
         out.last.v.calls = <<MatchingOperation(out.last.v.frame.kind)>>
    /\ out.last.v.frame.kind \in {"Header", "End"} =>
         (out.last.v.calls = <<>> /\ ~out.last.v.ok)

\* C16 as stated: the counter of written frames starts at 1 and every
\* frame whose write returns success advances it by exactly one.
C16_SuccessCountsOne ==
  out # None =>
    /\ out.n = 0 => out.written_frames = 1
    /\ (out.last # None /\ out.last.v.ok) =>
         out.written_frames = out.last.v.before + 1

(* ===================================================================== *)
(* SpecArgs: Config::new on bounded command lines (args.rs), and the     *)
(* InputFile built from the Config                                        *)
(* ===================================================================== *)

\* the options without value: the long name on the command line and the
\* name the Arg was created with
ArgName(long) ==
  CASE long = "--force" -> "force-overwrite"
    [] long = "--no-verify-mac" -> "no-verify-mac"
    [] long = "--no-in-memory-db" -> "no-in-memory-db"

Flags == {"--force", "--no-verify-mac", "--no-in-memory-db"}

\* ArgMatches of a command line: the names of the arguments given
get_matches(argv) ==
  {ArgName(long) : long \in argv.options}
  \cup (IF argv.output_type # "" THEN {"output-type"} ELSE {})
  \cup (IF argv.verbosity # "" THEN {"log-level"} ELSE {})
  \cup {"input-file", "password-string"}

\* ArgMatches::is_present: a name that no Arg has is not present
is_present(matches, name) == name \in matches

to_lowercase(x) ==
  CASE x = "RAW" -> "raw" [] x = "Debug" -> "debug" [] OTHER -> x

PasswordLength == 30
DigitChars == {"0", "1", "2", "3", "4", "5", "6", "7", "8", "9"}

\* password.retain(|c| ('0'..='9').contains(&c))
retain_digits(password) == SelectSeq(password, LAMBDA c : c \in DigitChars)

\* Config::new
Config_new(argv) ==
  LET built(matches, password) ==
        IF Len(password) # PasswordLength
        THEN [ok |-> FALSE, err |-> "Wrong password length"]
        ELSE IF /\ is_present(matches, "log-level")
                /\ to_lowercase(argv.verbosity) \notin {"debug", "info", "warn", "error"}
        THEN [ok |-> FALSE, err |-> "Unknown log level given"]
        ELSE IF /\ is_present(matches, "output-type")
                /\ to_lowercase(argv.output_type) \notin {"none", "raw", "csv"}
        THEN [ok |-> FALSE, err |-> "Unknown output type given"]
        ELSE
          [ok |-> TRUE,
           config |->
             [ password |-> password,
               verify_mac |-> ~is_present(matches, "no_verify_mac"),
               log_level |-> IF is_present(matches, "log-level")
                             THEN to_lowercase(argv.verbosity) ELSE "info",
               force_overwrite |-> is_present(matches, "force-overwrite"),
               output_type |-> IF is_present(matches, "output-type")
                               THEN to_lowercase(argv.output_type) ELSE "raw",
               output_raw_db_in_memory |-> ~is_present(matches, "no-in-memory-db") ]]
  IN  built(get_matches(argv), retain_digits(argv.password))

\* passwords given: 30 digits, 30 digits in groups, 29 digits
PasswordStrings ==
  { [k \in 1..30 |-> "1"],
    [k \in 1..35 |-> IF k % 6 = 0 THEN " " ELSE "2"],
    [k \in 1..29 |-> "3"] }

CommandLines ==
  { [options |-> o, password |-> p, output_type |-> t, verbosity |-> l] :
      o \in SUBSET Flags, p \in PasswordStrings,
      t \in {"", "none", "RAW", "csv", "xml"}, l \in {"", "Debug", "loud"} }

InitArgs ==
  /\ config \in { [argv |-> a, ret |-> None, main |-> None] : a \in CommandLines }
  /\ codec = None /\ out = None /\ derivation = None
  /\ file = <<HeaderUnit(1)>> /\ verify = FALSE /\ input_file = None
  /\ dpc = "start" /\ wpc = "idle"
  /\ queue = <<>> /\ pending = None /\ writing = None
  /\ sink = <<>> /\ written_frames = 1
  /\ errors = <<>> /\ version_log = <<>> /\ decoded = <<>>
  /\ local = LocalIdle
  /\ cipher_data = None /\ decrypter = None
  /\ panicked = FALSE
  /\ op = "init" /\ res = "none"
  /\ iv0 = HeaderIv /\ calls = 0 /\ legacy_calls = 0 /\ before = HeaderIv
  /\ MacIdle

\* Config::new is called on the command line
ConfigNew ==
  /\ config.ret = None
  /\ config' = [config EXCEPT !.ret = Some(Config_new(config.argv))]
  /\ UNCHANGED <<decrypter, cipher_data, panicked, op, res, iv0, calls,
                 legacy_calls, before, fed, checked, ops, file, verify,
                 input_file, dpc, wpc, queue, pending, writing, sink,
                 written_frames, errors, version_log, decoded, local, codec,
                 out, derivation>>

\* InputFile::new is called with the password and verify_mac of the Config
InputFileNew ==
  /\ config.ret # None /\ config.ret.v.ok /\ input_file = None
  /\ \E r \in {InputFile_new(file, config.ret.v.config.password,
                             config.ret.v.config.verify_mac)} :
       /\ r.out = "ok"
       /\ input_file' = r.inp
  /\ UNCHANGED <<decrypter, cipher_data, panicked, op, res, iv0, calls,
                 legacy_calls, before, fed, checked, ops, file, verify, dpc,
                 wpc, queue, pending, writing, sink, written_frames, errors,
                 version_log, decoded, local, codec, out, config, derivation>>

\* main of main.rs: the password is stripped of its non-digits and
\* decode_backup is called with it
Main ==
  /\ config.main = None /\ local.pc = "idle"
  /\ config' = [config EXCEPT !.main = Some(retain_digits(config.argv.password))]
  /\ local' = [LocalIdle EXCEPT !.pc = "loop"]
  /\ UNCHANGED <<decrypter, cipher_data, panicked, op, res, iv0, calls,
                 legacy_calls, before, fed, checked, ops, file, verify,
                 input_file, dpc, wpc, queue, pending, writing, sink,
                 written_frames, errors, version_log, decoded, codec, out,
                 derivation>>

NextArgs == ConfigNew \/ InputFileNew \/ Main

SpecArgs == InitArgs /\ [][NextArgs]_vars

\* C18 as stated: verify_mac of the Config is false exactly when
\* --no-verify-mac is on the command line, and the Decrypter is built with
\* that value.
C18_FlagDisablesVerification ==
  (config # None /\ config.ret # None /\ config.ret.v.ok) =>
    /\ ~config.ret.v.config.verify_mac <=>
         "--no-verify-mac" \in config.argv.options
    /\ input_file.some =>
         (input_file.v.decrypter.mac = None <=>
            "--no-verify-mac" \in config.argv.options)

\* C22 as stated: a password that does not have exactly 30 digits once its
\* non-digits are removed makes the configuration fail with an error, and
\* no decoding is started.
C22_PasswordValidated ==
  (config # None /\ Len(retain_digits(config.argv.password)) # PasswordLength) =>
    /\ config.ret # None => ~config.ret.v.ok
    /\ input_file = None
    /\ local.pc = "idle"

(* ===================================================================== *)
(* The reader's IV, MAC input and lengths (Spec)                          *)
(* ===================================================================== *)

\* the decode thread has read every unit up to its position successfully
ReadingOk == input_file # None /\ dpc \in {"pull", "push", "done"}
\* ordinary records read after the header, and payload blocks read
RecordsRead == input_file.v.reader - 1
PayloadsRead ==
  Cardinality({i \in 2..input_file.v.reader : HasPayload(file[i])})

\* C23: after k ordinary records and m payload blocks have been read
\* successfully the counter (the IV's first four bytes, big-endian) is the
\* header's counter + k + m modulo 2^32, the other bytes are the header's
\* and the cipher has been re-created from that IV; a record with its
\* payload block therefore advances the counter by 2.
C23_CounterAdvances ==
  ReadingOk =>
    LET advanced(d) ==
          /\ BE32(d.iv, 0) = Add32(BE32(FileIv(file), 0), RecordsRead + PayloadsRead)
          /\ SubSeq(d.iv, 5, 16) = SubSeq(FileIv(file), 5, 16)
          /\ d.cipher = NewCipher(d.key, d.iv)
    IN  advanced(input_file.v.decrypter)

\* records and payload blocks have been read, the last record read carried
\* a payload block, and the counter has carried into its third byte
C23_Witness ==
  /\ ReadingOk /\ RecordsRead >= 4 /\ PayloadsRead >= 2
  /\ HasPayload(file[input_file.v.reader])
  /\ At(input_file.v.decrypter.iv, 2) = 255

\* the step is a pull in which reading the record after the reader's
\* position failed: the file ended, or the record's MAC did not match
RecordFailed ==
  /\ op' = "pull" /\ res' # "ok"
  /\ \/ input_file.v.reader + 1 > Len(file)
     \/ verify /\ file[input_file.v.reader + 1].tamper # "none"
\* ... in which the record was read and the MAC of its payload block did
\* not match
PayloadFailed ==
  /\ op' = "pull" /\ res' # "ok"
  /\ input_file.v.reader + 1 <= Len(file)
  /\ file[input_file.v.reader + 1].tamper = "none"
  /\ HasPayload(file[input_file.v.reader + 1])
  /\ verify /\ file[input_file.v.reader + 1].ptamper # "none"

\* C24: a failed read of a record leaves the IV, count_byte and count_frame
\* as they were; a failed read of a payload block leaves them as the record
\* before it left them (the IV advanced once, the record's bytes counted,
\* the record not counted); and the IV of an open InputFile changes in no
\* step other than a pull that verified a record, by one or two advances.
C24_FailureLeavesIv ==
  [][ input_file # None =>
        LET same(a, b) ==
              /\ b.decrypter.iv = a.decrypter.iv
              /\ b.count_byte = a.count_byte
              /\ b.count_frame = a.count_frame
            record_only(a, b, u) ==
              /\ b.decrypter.iv = WriterIv(a.decrypter.iv, 1)
              /\ b.count_byte = a.count_byte + u.body_len + LENGTH_HMAC + 4
              /\ b.count_frame = a.count_frame
            changed(a, b) ==
              /\ op' = "pull" /\ ~RecordFailed
              /\ \/ b.decrypter.iv = WriterIv(a.decrypter.iv, 1)
                 \/ b.decrypter.iv = WriterIv(a.decrypter.iv, 2) /\ res' = "ok"
        IN  /\ input_file' # None
            /\ RecordFailed => same(input_file.v, input_file'.v)
            /\ PayloadFailed =>
                 record_only(input_file.v, input_file'.v,
                             file[input_file.v.reader + 1])
            /\ input_file'.v.decrypter.iv # input_file.v.decrypter.iv =>
                 changed(input_file.v, input_file'.v) ]_vars

\* the MAC of a record after the second did not match: the IV is the one
\* that record was written under and the record is not counted
C24_Witness ==
  /\ MacFailed /\ input_file.v.reader >= 3
  /\ file[input_file.v.reader].tamper # "none"
  /\ input_file.v.decrypter.iv = FrameIv(file, input_file.v.reader)
  /\ input_file.v.count_frame = input_file.v.reader - 1

\* the decode thread is about to read a record of the file, with a MAC;
\* the record's length leaves room for a tag
AboutToRead ==
  /\ input_file # None /\ dpc = "pull" /\ verify
  /\ input_file.v.reader + 1 <= Len(file)
  /\ FrameLength(file, input_file.v.reader + 1) >= LENGTH_HMAC
\* the bytes in the MAC accumulator of Decrypter d
Accumulated(d) == d.mac.v.acc

\* C25: when verify_mac is called for a payload block the MAC accumulator
\* holds exactly the 16 bytes of the IV the block is decrypted under,
\* followed by the data_length bytes read for the block; when it is called
\* for an ordinary record the accumulator holds the bytes given to decrypt
\* and no IV; and every read starts from an empty accumulator, whatever
\* was read before.
C25_PayloadMacInput ==
  AboutToRead =>
    LET block(inp, i) ==
          /\ Accumulated(attachment_decrypted(inp, file, i))
               = inp.decrypter.iv \o PayloadRead(file, i)
          /\ Len(inp.decrypter.iv) = 16
          /\ inp.decrypter.iv = PayloadIv(file, i)
          /\ Len(PayloadRead(file, i)) = file[i].wire.data_length
        record(inp, i, r) ==
          /\ Accumulated(inp.decrypter) = <<>>
          /\ Accumulated(frame_decrypted(inp, file, i)) = frame_data(inp, file, i)
          /\ (r.out = "ok" /\ HasPayload(file[i])) => block(r.inp, i)
    IN  record(input_file.v, input_file.v.reader + 1,
               read_decrypt_frame(input_file.v, file))

\* a payload block has been read and verified and the next record carries
\* a payload block of at least one byte
C25_Witness ==
  /\ AboutToRead
  /\ HasPayload(file[input_file.v.reader])
  /\ HasPayload(file[input_file.v.reader + 1])
  /\ file[input_file.v.reader + 1].wire.data_length >= 1
  /\ file[input_file.v.reader + 1].tamper = "none"

C27_ClearLengthPrefix ==
  (AboutToRead /\ input_file.v.file_version = 0) =>
    LET era0(inp, i) ==
          /\ frame_prepared(inp, i) = inp.decrypter
          /\ Len(frame_data(inp, file, i)) = FrameLength(file, i) - 10
          /\ frame_data(inp, file, i) = BodyRead(file, i)
          /\ frame_hmac(inp, file, i) = TagMarks
          /\ frame_data(inp, file, i) \o frame_hmac(inp, file, i)
               = FrameBytes(file, i)
          /\ Accumulated(frame_decrypted(inp, file, i)) = BodyRead(file, i)
          /\ verify_mac(frame_decrypted(inp, file, i), FrameTag(file, i)).ok
               <=> file[i].tamper = "none"
    IN  era0(input_file.v, input_file.v.reader + 1)

\* records of a file of version 0 have been read and verified and the next
\* one has a body of two bytes
C27_Witness ==
  /\ AboutToRead /\ input_file.v.file_version = 0
  /\ input_file.v.reader >= 3
  /\ input_file.v.count_frame = input_file.v.reader
  /\ file[input_file.v.reader + 1].body_len = 2

\* the record at the reader's position has been read from a file of
\* version >= 1
RecordReadEra1 ==
  /\ ReadingOk /\ input_file.v.reader >= 2
  /\ input_file.v.file_version # 0

\* C28 as stated: in a file of version >= 1 the plaintext returned for a
\* record of decoded length L has L - 10 - 4 bytes, and the tag is read
\* after the body and is no part of the decrypted buffer.
C28_BodyLengthMinus14 ==
  RecordReadEra1 =>
    LET handed(inp, i) ==
          /\ Len(frame_body(inp, file, i)) = FrameLength(file, i) - 10 - 4
          /\ frame_hmac(inp, file, i) = TagMarks
          /\ \A j \in 1..Len(frame_data(inp, file, i)) :
               frame_data(inp, file, i)[j] < 256
    IN  handed(input_file.v, input_file.v.reader)

\* C28, amended: in a file of version >= 1 the decrypted buffer has
\* 4 + L - 10 bytes, the 4 bytes of the length and the L - 10 bytes read
\* behind them; the plaintext returned is that of the latter, L - 10
\* bytes, the whole body of the record; the tag is the 10 bytes read after
\* the body and is no part of the decrypted buffer.
C28_BodyLength ==
  RecordReadEra1 =>
    LET handed(inp, i) ==
          /\ Len(frame_data(inp, file, i)) = 4 + FrameLength(file, i) - 10
          /\ Len(frame_body(inp, file, i)) = FrameLength(file, i) - 10
          /\ frame_body(inp, file, i) = BodyRead(file, i)
          /\ frame_hmac(inp, file, i) = TagMarks
          /\ \A j \in 1..Len(frame_data(inp, file, i)) :
               frame_data(inp, file, i)[j] < 256
    IN  handed(input_file.v, input_file.v.reader)

\* a record with a body of two bytes has been read from a file of version 1
\* and is about to be pushed
C28_Witness ==
  /\ RecordReadEra1 /\ dpc = "push" /\ input_file.v.reader >= 3
  /\ file[input_file.v.reader].body_len = 2
  /\ ~pending.v.altered

\* Aes256Ctr::apply_keystream: byte j of the result is the byte of data
\* combined with the keystream byte of (key, iv) at the cipher's position
apply_keystream(c, data) ==
  [j \in 1..Len(data) |->
     [key |-> c.key, iv |-> c.iv, at |-> c.pos + j - 1, ct |-> data[j]]]

\* the decode thread is about to read a record of the file
AboutToDecrypt ==
  /\ input_file # None /\ dpc = "pull"
  /\ input_file.v.reader + 1 <= Len(file)
  /\ FrameLength(file, input_file.v.reader + 1) >= LENGTH_HMAC

C30_MacOverCiphertext ==
  (decrypter # None /\ decrypter.v.mac.some) =>
    /\ Accumulated(decrypter.v) = fed
    /\ \A j \in 1..Len(fed) : fed[j] \in 0..U8_MAX

\* after an increase_iv the IV and a buffer of two bytes have been fed
C30_Witness ==
  /\ decrypter # None /\ decrypter.v.mac.some
  /\ op = "decrypt" /\ calls >= 1
  /\ Len(fed) = 18
  /\ SubSeq(fed, 1, 16) = decrypter.v.iv
  /\ decrypter.v.cipher.pos = 2

\* C31: a verify_mac call leaves the MAC freshly keyed: the key it had and
\* no bytes; what is fed next is then all the accumulator holds, and a tag
\* computed over the bytes of the unit verified before followed by those of
\* this unit is rejected: a tag authenticates its own unit only.
C31_ResetAfterVerify ==
  [][ (decrypter # None /\ decrypter.v.mac.some) =>
        /\ op' = "verify_mac" =>
             decrypter'.v.mac = Some(NewHmac(decrypter.v.mac.v.k))
        /\ (op = "verify_mac" /\ op' = "decrypt") =>
             /\ Accumulated(decrypter'.v) = fed'
             /\ Accumulated(decrypter'.v) \in Chunks
        /\ (op = "verify_mac" /\ op' = "mac_update_with_iv") =>
             Accumulated(decrypter'.v) = decrypter.v.iv
        /\ (op' = "verify_mac" /\ checked'.v.tamper = "stale") => res' = "err"
    ]_vars

\* after an earlier verification, a tag computed over the bytes of both
\* units has been rejected
C31_Witness ==
  /\ decrypter # None /\ decrypter.v.mac.some
  /\ op = "verify_mac" /\ res = "err"
  /\ checked.v.tamper = "stale"
  /\ Len(checked.v.fed) >= 16
  /\ ops = 4

\* C32 as stated: the error that verify_mac returns on a mismatch carries
\* the tag that was read and the tag computed from the accumulator.
C32_ErrorCarriesTags ==
  (op = "verify_mac" /\ res = "err") =>
    LET carries(e, tag) ==
          \E k \in 1..Len(e.carried) : e.carried[k] = tag
    IN  /\ checked.v.err.some
        /\ carries(checked.v.err.v, checked.v.tag)
        /\ carries(checked.v.err.v,
                   Truncate(Hmac(decrypter.v.mac.v.k, checked.v.fed), 10))

\* the decode thread has stopped at a record whose length prefix declares
\* fewer bytes than a tag has
ShortLengthMet ==
  /\ input_file # None /\ dpc \in {"failed", "panicked"}
  /\ input_file.v.reader + 1 <= Len(file)
  /\ FrameLength(file, input_file.v.reader + 1) < LENGTH_HMAC

\* C33 as stated: a record whose declared length is smaller than the tag
\* ends the run with an error value; the computation of the body size does
\* not panic.
C33_ShortLengthIsError ==
  ShortLengthMet =>
    /\ ~panicked /\ res # "panic"
    /\ \E k \in 1..Len(errors) : errors[k].by = "decode"

(* ===================================================================== *)
(* Key derivation (SpecKeys)                                              *)
(* ===================================================================== *)

\* the passwords, salts and IVs the keys are derived of
KeyPasswords == {Password, "0"}
KeySalts == {Salt, <<>>}
KeyIvs ==
  MacIvs \cup {HeaderIv, SecondIv} \cup
  { [j \in 1..16 |-> b] : b \in {0, 2, 255} }

InitKeys ==
  /\ derivation = None
  /\ codec = None /\ out = None /\ config = None
  /\ file = <<>> /\ verify = FALSE /\ input_file = None
  /\ dpc = "start" /\ wpc = "idle"
  /\ queue = <<>> /\ pending = None /\ writing = None
  /\ sink = <<>> /\ written_frames = 1
  /\ errors = <<>> /\ version_log = <<>> /\ decoded = <<>>
  /\ local = LocalIdle
  /\ cipher_data = None /\ decrypter = None
  /\ panicked = FALSE
  /\ op = "init" /\ res = "none"
  /\ iv0 = HeaderIv /\ calls = 0 /\ legacy_calls = 0 /\ before = HeaderIv
  /\ MacIdle

\* the hasher and the hash before the loop: the salt is in the hasher
hash_start(key, salt) ==
  [ key |-> key, hasher |-> hasher_update(NewHasher, "salt", salt),
    hash |-> KeyBytes(key), rounds |-> 0 ]

\* one round of the loop: the hash and the key go into the hasher and the
\* digest, which resets the hasher, becomes the hash
hash_round(d) ==
  LET hasher == hasher_update(hasher_update(d.hasher, "hash", d.hash), "key", d.key)
  IN  [d EXCEPT !.hash = finalize(hasher), !.hasher = NewHasher,
                !.rounds = d.rounds + 1]

\* for _ in 0..n: n rounds, one after the other
RECURSIVE hash_rounds(_, _)
hash_rounds(d, n) ==
  IF n = 0 THEN d
  ELSE IF n = 1 THEN hash_round(d)
  ELSE LET first == hash_rounds(d, n \div 2)
       IN  IF first.rounds = d.rounds + (n \div 2)
           THEN hash_rounds(first, n - (n \div 2))
           ELSE d

\* derive_secrets of main.rs: extract under 32 zero bytes, expand, and
\* the two halves
derive_secrets(key, info, length) ==
  LET prk == hkdf_new(Some(ZeroSalt), key)
      sec == hkdf_expand(prk, info, length)
  IN  [ prk |-> prk.prk, okm |-> sec,
        cipher_key |-> [part |-> "okm[..32]", okm |-> sec],
        mac_key |-> [part |-> "okm[32..]", okm |-> sec] ]

\* generate_keys of main.rs
generate_keys(key, salt) ==
  LET d == hash_rounds(hash_start(key, salt), ROUNDS)
      made(s) == [ hash |-> d.hash, rounds |-> d.rounds, prk |-> s.prk,
                   okm |-> s.okm, cipher_key |-> s.cipher_key,
                   mac_key |-> s.mac_key ]
  IN  made(derive_secrets(FirstHalf(d.hash), INFO, OKM_LENGTH))

\* the hash and the secrets made in Decrypter::new
new_secrets(key, salt) ==
  LET d == hash_rounds(hash_start(key, salt), ROUNDS)
      made(hk) ==
        LET okm == hkdf_expand(hk, INFO, OKM_LENGTH)
        IN  [ hash |-> d.hash, rounds |-> d.rounds, prk |-> hk.prk,
              okm |-> okm,
              cipher_key |-> [part |-> "okm[..32]", okm |-> okm],
              mac_key |-> [part |-> "okm[32..]", okm |-> okm] ]
  IN  made(hkdf_new(None, FirstHalf(d.hash)))

KeysStep ==
  UNCHANGED <<panicked, iv0, calls, legacy_calls, before, fed, checked, ops,
              file, verify, input_file, dpc, wpc, queue, pending, writing,
              sink, written_frames, errors, version_log, decoded, local,
              codec, out, config>>

\* Decrypter::new(key, salt, iv, verify_mac)
DecrypterNew ==
  /\ derivation = None
  /\ \E key \in KeyPasswords, salt \in KeySalts :
       \E k \in {new_secrets(key, salt)} :
         \E v \in KeyIvs, verify_mac_flag \in BOOLEAN :
           /\ derivation' = Some([ key |-> key, salt |-> salt,
                                    verify_mac |-> verify_mac_flag, made |-> k ])
           /\ decrypter' = Some(new(key, salt, v, verify_mac_flag))
  /\ op' = "new" /\ res' = "ok"
  /\ UNCHANGED cipher_data
  /\ KeysStep

\* generate_keys(key, salt) of main.rs, and the CipherData made of its keys
GenerateKeys ==
  /\ derivation = None
  /\ \E key \in KeyPasswords, salt \in KeySalts :
       \E k \in {generate_keys(key, salt)} :
         \E v \in KeyIvs, verify_mac_flag \in BOOLEAN :
           /\ derivation' = Some([ key |-> key, salt |-> salt,
                                    verify_mac |-> verify_mac_flag, made |-> k ])
           /\ cipher_data' = Some([hmac |-> NewHmac(k.mac_key),
                                   cipher_key |-> k.cipher_key,
                                   counter |-> v])
  /\ op' = "generate_keys" /\ res' = "ok"
  /\ UNCHANGED decrypter
  /\ KeysStep

NextKeys == DecrypterNew \/ GenerateKeys

SpecKeys == InitKeys /\ [][NextKeys]_vars

\* the keys have been derived
KeysMade == derivation # None

\* C36 as stated: the first 32 bytes of the last hash are the pseudorandom
\* key that HKDF-Expand is given, with no extract step
C36_NoExtractStep ==
  KeysMade =>
    LET m == derivation.v.made
    IN  /\ m.prk = FirstHalf(m.hash)
        /\ m.okm.expand = FirstHalf(m.hash)

\* C36, amended: the first 32 bytes of the hash of the last of the 250000
\* rounds are the input key material of HKDF-SHA256: HKDF-Extract under a
\* salt of 32 zero bytes gives the pseudorandom key, HKDF-Expand with the
\* info "Backup Export" gives 64 bytes, cipher_key = okm[0..32] and
\* mac_key = okm[32..64]; the salt is an input of the first round only.
\* These are the keys of the Decrypter and of the CipherData.
C36_KeyDerivation ==
  KeysMade =>
    LET m == derivation.v.made
        i == derivation.v
        zeros == [j \in 1..32 |-> 0]
        ikm == [part |-> "hash[..32]", hash |-> m.hash]
        prk == [extract |-> zeros, ikm |-> ikm]
        okm == [expand |-> prk, info |-> "Backup Export", length |-> 64]
        cipher_key == [part |-> "okm[..32]", okm |-> okm]
        mac_key == [part |-> "okm[32..]", okm |-> okm]
    IN  /\ m.rounds = 250000 /\ m.hash.n = 250000
        /\ m.hash.key = i.key
        /\ m.hash.salted = {1} /\ m.hash.salt = i.salt
        /\ m.prk = prk /\ m.okm = okm
        /\ m.cipher_key = cipher_key /\ m.mac_key = mac_key
        /\ decrypter # None =>
             /\ decrypter.v.key = cipher_key
             /\ decrypter.v.cipher.key = cipher_key
             /\ decrypter.v.mac.some = i.verify_mac
             /\ i.verify_mac => decrypter.v.mac.v.k = mac_key
        /\ cipher_data # None =>
             /\ cipher_data.v.cipher_key = cipher_key
             /\ cipher_data.v.hmac.k = mac_key

\* Decrypter::new has derived the keys of a password and a salt, with the
\* MAC
C36_Witness ==
  /\ KeysMade /\ decrypter # None
  /\ decrypter.v.mac.some
  /\ derivation.v.salt = Salt

(* ===================================================================== *)
(* The states of the pipeline (Spec)                                      *)
(* ===================================================================== *)

\* a thread has stopped on an error or a panic, or because the other had
Errored ==
  \/ dpc \in {"failed", "panicked", "cancelled"}
  \/ wpc \in {"failed", "panicked"}

\* the state of the pipeline
PipelineState ==
  CASE Errored -> "Errored"
    [] dpc = "start" -> "Start"
    [] Drained -> "Drained"
    [] dpc = "pull" /\ input_file.v.reader = 1 -> "HeaderRead"
    [] OTHER -> "Streaming"

\* nothing is read, decrypted, pushed or written in the step
NothingMoves ==
  UNCHANGED <<input_file, decoded, pending, queue, writing, sink, written_frames>>

C35_KeyValueDecoding ==
  (codec.ret # None /\ "keyValue" \in codec.frame.fields) =>
    LET r == codec.ret.v
        value == codec.frame.value
        typed(t) ==
          CASE t = "blobValue" -> "Blob" [] t = "booleanValue" -> "Bool"
            [] t = "floatValue" -> "Float" [] t = "integerValue" -> "Int"
            [] t = "longValue" -> "Int" [] t = "stringValue" -> "String"
    IN  /\ (r.out = "ok" /\ r.frame.kind = "KeyValue") =>
             /\ value.type \in {"blobValue", "booleanValue", "floatValue",
                                "integerValue", "longValue", "stringValue"}
             /\ r.frame.key = codec.frame.key
             /\ r.frame.value = [type |-> typed(value.type), v |-> value.v]
        /\ value.type = "none" =>
             /\ r.out \in {"panic", "err"}
             /\ r.out = "panic" => panicked

\* a keyValue field with a 32-bit integer value has been decoded
C35_Witness ==
  /\ codec.ret # None /\ codec.ret.v.out = "ok"
  /\ codec.ret.v.frame.kind = "KeyValue"
  /\ codec.frame.value.type = "integerValue"

\* a keyValue field with no typed value has been given to Frame::new
C35_NoValueMet ==
  /\ codec.ret # None /\ codec.frame.fields = {"keyValue"}
  /\ codec.frame.value.type = "none" /\ codec.ret.v.out = "panic"

(* ===================================================================== *)
(* The counters (Spec)                                                    *)
(* ===================================================================== *)

\* C37: count_frame and count_byte of the reader never decrease: not in a
\* step of the pipeline, and not in a call of next, nor in the call after
\* it, made on the reader of any reachable state, among them the states
\* after a failed call; written_frames of the sink never decreases.
C37_CountersMonotone ==
  [][ LET NotBelow(a, b) ==
            /\ a.count_frame <= b.count_frame
            /\ a.count_byte <= b.count_byte
          Called(a) ==
            LET first == next(a, file)
                second == next(first.inp, file)
            IN  NotBelow(a, first.inp) /\ NotBelow(first.inp, second.inp)
      IN  /\ input_file # None =>
               (input_file' # None /\ NotBelow(input_file.v, input_file'.v))
          /\ input_file' # None => Called(input_file'.v)
          /\ written_frames <= written_frames' ]_vars

\* a call of next has failed after records with payload blocks were read
\* and written
C37_Witness ==
  /\ input_file # None /\ dpc = "failed"
  /\ input_file.v.count_frame >= 3 /\ written_frames >= 3
  /\ PayloadsRead > 0

(* ===================================================================== *)
(* Authentication before use                                              *)
(* ===================================================================== *)

\* the run of decode_backup has ended with a MAC error
MacErrorReported ==
  /\ local.pc = "failed" /\ errors # <<>>
  /\ errors[Len(errors)].err = "MacVerificationError"

\* C38, of decode_backup: with MAC verification enabled no plaintext of a
\* payload block is handed to the writer unless the tag of that block has
\* verified: after a MAC error nothing of the unit that failed has been
\* written, and no plaintext that differs from what was encrypted has.
C38_AuthenticateBeforeUse ==
  verify =>
    \A k \in 1..Len(sink) :
      sink[k].op = "write_all" =>
        /\ ~sink[k].altered
        /\ MacErrorReported => sink[k].idx < local.reader

\* the run is complete: End was read, every record written, no error
CompleteRun ==
  /\ Drained /\ wpc = "done" /\ errors = <<>> /\ ~panicked

\* C39, on the runs that read no Version record: written_frames of the sink
\* is at most count_frame of the reader in every state, and after a
\* complete successful run count_frame is written_frames + 1, the End
\* record.
C39_WrittenBelowRead ==
  (input_file # None /\ version_log = <<>>) =>
    /\ written_frames <= input_file.v.count_frame
    /\ CompleteRun => input_file.v.count_frame = written_frames + 1

====
